---- MODULE Spec2Model ----
(***************************************************************************)
(* Event-sourcing runtime (evercore / eventide): the unit-of-work          *)
(* EventContext, the ComposedAggregate wrapper, the EventStore facade and  *)
(* the reference MemoryStorageEngine, with the Account domain of the       *)
(* library's own tests as the aggregate implementation.                    *)
(***************************************************************************)
EXTENDS Integers, Sequences, FiniteSets, TLC

(***************************************************************************)
(* Bounds of the model.                                                    *)
(***************************************************************************)
MaxVersion == 2       \* publish calls accepted per aggregate object
MaxCommits == 2       \* commit calls accepted per context
MaxFreq == 2          \* largest snapshot_frequency of the aggregate type
MaxBuffered == MaxVersion       \* events a context may buffer
MaxStored == MaxVersion + 1     \* events the engine's log may hold

Contexts == {"c1", "c2"}
Aggregates == {"a1", "a2"}              \* the aggregate variables of the program
Engines == {"e1", "e2"}                 \* the SqlxStorageEngine instances
MaxId == Cardinality(Aggregates)        \* identities the engine may allocate
Amounts == {1}                          \* amounts of the credit / debit commands
AccountType == "account"                \* ComposedImpl::get_type of Account
EngineTypes == {"account", "user"}      \* types the engine is asked about
EventTypes == {"credited", "debited"}   \* event types of the Account domain
NaturalKeys == {"chavez_account", "roger"}
ContextKeys == {"chavez_account"}       \* natural keys used through contexts
MetaKeys == {"user", "ip_address"}
MetaValues == {"chavez", "roger"}
Frequencies == {-1} \cup (0..MaxFreq)    \* ComposedImpl::snapshot_frequency, an i32
NoThread == "<unlocked>"

NoKey == "<none>"
NoValue == "<absent>"
NoAggregate == [live |-> FALSE]

VARIABLES
    memory_store,        \* MemoryStore {id, events, snapshots, natural_key_map}
    captured_events,     \* EventContext.captured_events, per context
    captured_snapshots,  \* EventContext.captured_snapshots, per context
    context,             \* EventContext.context (the metadata map), per context
    commits,             \* successful commit calls of each context
    aggregates,          \* the ComposedAggregate objects alive in the program
    snapshot_frequency,  \* ComposedImpl::snapshot_frequency of Account
    result,              \* what the last direct call of the engine returned
    created,             \* history: the id first returned for each (type, key)
    mutex,               \* the thread holding the Mutex around the MemoryStore
    pc,                  \* where the call made through each context stands
    writing,             \* the write_updates call in flight
    observed,            \* what the last read of the engine returned
    locals,              \* the publish call in flight on each aggregate's thread
    locks,               \* the holders of the three Mutexes of each EventContext
    database,            \* the tables of the SQL database behind an SQL engine
    engines              \* the SqlxStorageEngine instances over the database

thread_vars == <<mutex, pc, writing, observed, locals, locks, database, engines>>

vars == <<memory_store, captured_events, captured_snapshots, context, commits,
          aggregates, snapshot_frequency, result, created, mutex, pc, writing,
          observed, locals, locks, database, engines>>

(***************************************************************************)
(* Option<T>: None is the empty sequence, Some(x) the one-element one.     *)
(***************************************************************************)
None == <<>>
Some(x) == <<x>>

(***************************************************************************)
(* Event and Snapshot records; payloads are encoded by serde_json.         *)
(***************************************************************************)
\* serde_json::to_string of an AccountEvents value: {"<variant>":{"amount":n}}
EncodeEvent(variant, amount) == <<"{", variant, "amount", amount, "}">>

\* serde_json::from_str::<AccountEvents>: the variant and amount, or an error
DecodeEvent(data) ==
    IF Len(data) = 5 /\ data[1] = "{" /\ data[5] = "}" /\ data[3] = "amount"
       /\ data[2] \in {"AccountCredited", "AccountDebite"}
    THEN [ok |-> TRUE, variant |-> data[2], amount |-> data[4]]
    ELSE [ok |-> FALSE, variant |-> "", amount |-> 0]

\* serde_json::to_string of the Account state
EncodeState(state) == <<"{", "balance", state.balance, "}">>

\* serde_json::from_str::<Account>
DecodeState(data) ==
    IF Len(data) = 4 /\ data[1] = "{" /\ data[4] = "}" /\ data[2] = "balance"
    THEN [ok |-> TRUE, state |-> [balance |-> data[3]]]
    ELSE [ok |-> FALSE, state |-> [balance |-> 0]]

\* the mutation of EncodeMetadata that writes the "user" entry only
EncodeMetadataUser(map) ==
    [json |-> {<<k, map[k]>> : k \in {x \in {"user"} : map[x] # NoValue}}]

\* serde_json::to_string of the context's HashMap<String, String>
EncodeMetadata(map) == [json |-> {<<k, map[k]>> : k \in {x \in MetaKeys : map[x] # NoValue}}]

\* Event::deserialize_metadata::<HashMap<String, String>>
DecodeMetadata(metadata) ==
    IF metadata = None THEN None
    ELSE Some([k \in MetaKeys |->
                  IF \E p \in metadata[1].json : p[1] = k
                  THEN (CHOOSE p \in metadata[1].json : p[1] = k)[2]
                  ELSE NoValue])

EventNew(aggregate_id, aggregate_type, version, event_type, data) ==
    [aggregate_id |-> aggregate_id, aggregate_type |-> aggregate_type,
     version |-> version, event_type |-> event_type, data |-> data,
     metadata |-> None]

\* the mutation of Event::add_metadata that attaches an empty map
EventAddMetadataEmpty(event, map) ==
    [event EXCEPT !.metadata = Some([json |-> {}])]

EventAddMetadata(event, map) ==
    [event EXCEPT !.metadata = Some(EncodeMetadata(map))]

SnapshotNew(aggregate_id, aggregate_type, version, state) ==
    [aggregate_id |-> aggregate_id, aggregate_type |-> aggregate_type,
     version |-> version, data |-> EncodeState(state)]

(***************************************************************************)
(* The Account domain (ComposedImpl + CanRequest) of the library's tests.  *)
(***************************************************************************)
DefaultState == [balance |-> 0]

Commands == [kind : {"CreditAccount", "DebitAccount"}, amount : Amounts]

\* a command that the domain's request function answers with an error
RefusedKind == "Refused"
RefusedCommands == [kind : {RefusedKind}, amount : Amounts]

\* CanRequest::request: command -> (event_type, event payload)
AccountRequest(state, command) ==
    IF command.kind = "CreditAccount"
    THEN [ok |-> TRUE, event_type |-> "credited",
          data |-> EncodeEvent("AccountCredited", command.amount)]
    ELSE [ok |-> TRUE, event_type |-> "debited",
          data |-> EncodeEvent("AccountDebite", command.amount)]

\* ComposedImpl::apply_event of Account
AccountApplyEvent(state, event) ==
    LET ev == DecodeEvent(event.data) IN
    IF ~ev.ok THEN [ok |-> FALSE, state |-> state]
    ELSE IF ev.variant = "AccountCredited"
    THEN [ok |-> TRUE, state |-> [balance |-> state.balance + ev.amount]]
    ELSE IF ev.amount > state.balance
    THEN [ok |-> FALSE, state |-> state]
    ELSE [ok |-> TRUE, state |-> [balance |-> state.balance - ev.amount]]

(***************************************************************************)
(* ComposedAggregate: the Aggregate trait for a ComposedImpl state.        *)
(***************************************************************************)
NewAggregateObject(id, aggregate_type, ctx, origin) ==
    [live |-> TRUE, id |-> id, aggregate_type |-> aggregate_type, version |-> 0,
     state |-> DefaultState, context |-> ctx,
     origin |-> origin, failed |-> FALSE, rejected |-> FALSE,
     entered |-> [version |-> 0, state |-> DefaultState]]

\* history: the version and state with which a loaded aggregate object entered
\* its context
Entered(agg) ==
    [agg EXCEPT !.entered = [version |-> agg.version, state |-> agg.state]]

\* the mutation of apply_snapshot that restores the state and not the version
apply_snapshot_state_only(agg, snapshot) ==
    LET decoded == DecodeState(snapshot.data) IN
    IF decoded.ok
    THEN [ok |-> TRUE, agg |-> [agg EXCEPT !.state = decoded.state]]
    ELSE [ok |-> FALSE, agg |-> agg]

apply_snapshot(agg, snapshot) ==
    LET decoded == DecodeState(snapshot.data) IN
    IF decoded.ok
    THEN [ok |-> TRUE,
          agg |-> [agg EXCEPT !.version = snapshot.version, !.state = decoded.state]]
    ELSE [ok |-> FALSE, agg |-> [agg EXCEPT !.version = snapshot.version]]

\* the mutation of apply_event that folds the event twice
apply_event_twice(agg, event) ==
    LET bumped == [agg EXCEPT !.version = event.version]
        once == AccountApplyEvent(agg.state, event)
        twice == AccountApplyEvent(once.state, event) IN
    IF once.ok
    THEN [ok |-> TRUE, agg |-> [bumped EXCEPT !.state = twice.state]]
    ELSE [ok |-> FALSE, agg |-> bumped]

apply_event(agg, event) ==
    LET bumped == [agg EXCEPT !.version = event.version]
        applied == AccountApplyEvent(agg.state, event) IN
    IF applied.ok
    THEN [ok |-> TRUE, agg |-> [bumped EXCEPT !.state = applied.state]]
    ELSE [ok |-> FALSE, agg |-> bumped]

\* the mutation of take_snapshot that stamps the version being published
take_snapshot_next(agg) ==
    SnapshotNew(agg.id, agg.aggregate_type, agg.version + 1, agg.state)

\* the mutation of take_snapshot that encodes a default state
take_snapshot_default(agg) ==
    SnapshotNew(agg.id, agg.aggregate_type, agg.version, DefaultState)

take_snapshot(agg) ==
    SnapshotNew(agg.id, agg.aggregate_type, agg.version, agg.state)

(***************************************************************************)
(* MemoryStorageEngine: the reference EventStoreStorageEngine.             *)
(***************************************************************************)
MemoryStoreNew ==
    [id |-> 0, events |-> <<>>, snapshots |-> <<>>,
     natural_key_map |-> [k \in NaturalKeys |-> 0]]

\* the mutation of create_aggregate_instance that rebuilds the store around the
\* new counter
create_aggregate_instance_reset(store, aggregate_type, natural_key) ==
    LET id == store.id + 1 IN
    [store |-> [id |-> id, events |-> <<>>, snapshots |-> <<>>,
                natural_key_map |->
                    IF natural_key # NoKey
                    THEN [store.natural_key_map EXCEPT ![natural_key] = id]
                    ELSE store.natural_key_map],
     id |-> id]

\* natural_key_map holds 0 for a key that was never inserted
create_aggregate_instance(store, aggregate_type, natural_key) ==
    LET id == store.id + 1 IN
    [store |-> [store EXCEPT
                    !.id = id,
                    !.natural_key_map =
                        IF natural_key # NoKey
                        THEN [store.natural_key_map EXCEPT ![natural_key] = id]
                        ELSE store.natural_key_map],
     id |-> id]

get_aggregate_instance_id(store, aggregate_type, natural_key) ==
    IF store.natural_key_map[natural_key] # 0
    THEN Some(store.natural_key_map[natural_key])
    ELSE None

read_events(store, aggregate_id, aggregate_type, version) ==
    SelectSeq(store.events,
              LAMBDA event : /\ event.aggregate_id = aggregate_id
                             /\ event.aggregate_type = aggregate_type
                             /\ event.version > version)

\* the mutation of read_snapshot that returns the oldest snapshot
read_snapshot_first(store, aggregate_id, aggregate_type) ==
    LET matching == {i \in 1..Len(store.snapshots) :
                        /\ store.snapshots[i].aggregate_id = aggregate_id
                        /\ store.snapshots[i].aggregate_type = aggregate_type} IN
    IF matching = {} THEN None
    ELSE Some(store.snapshots[CHOOSE i \in matching : \A j \in matching : i <= j])

read_snapshot(store, aggregate_id, aggregate_type) ==
    LET matching == {i \in 1..Len(store.snapshots) :
                        /\ store.snapshots[i].aggregate_id = aggregate_id
                        /\ store.snapshots[i].aggregate_type = aggregate_type} IN
    IF matching = {} THEN None
    ELSE Some(store.snapshots[CHOOSE i \in matching : \A j \in matching : j <= i])

\* the mutation of write_updates that persists the events only
write_updates_events_only(store, events, snapshots) ==
    [ok |-> TRUE, store |-> [store EXCEPT !.events = store.events \o events]]

write_updates(store, events, snapshots) ==
    [ok |-> TRUE,
     store |-> [store EXCEPT !.events = store.events \o events,
                             !.snapshots = store.snapshots \o snapshots]]

(***************************************************************************)
(* EventContext: load, publish, commit as functions of what they read.     *)
(***************************************************************************)
RECURSIVE ApplyEvents(_, _)
\* the `for event in events { aggregate.apply_event(&event)?; }` loop of load
ApplyEvents(agg, events) ==
    IF events = <<>> THEN [ok |-> TRUE, agg |-> agg]
    ELSE LET r == apply_event(agg, Head(events)) IN
         IF r.ok THEN ApplyEvents(r.agg, Tail(events))
         ELSE [ok |-> FALSE, agg |-> r.agg]

\* the mutation of load that leaves out the AggregateNotFound check
load_unchecked(store, agg) ==
    LET snapshot == read_snapshot(store, agg.id, agg.aggregate_type)
        restored == IF snapshot # None THEN apply_snapshot(agg, snapshot[1])
                    ELSE [ok |-> TRUE, agg |-> agg]
        events == read_events(store, restored.agg.id, restored.agg.aggregate_type,
                              restored.agg.version)
        folded == ApplyEvents(restored.agg, events) IN
    IF ~restored.ok THEN [ok |-> FALSE, error |-> "SnapshotDeserializationError",
                          agg |-> restored.agg, applied |-> 0]
    ELSE [ok |-> folded.ok,
          error |-> IF folded.ok THEN "" ELSE "ApplyEventError",
          agg |-> folded.agg, applied |-> Len(events)]

load(store, agg) ==
    LET snapshot == read_snapshot(store, agg.id, agg.aggregate_type)
        snapshot_found == snapshot # None
        restored == IF snapshot_found THEN apply_snapshot(agg, snapshot[1])
                    ELSE [ok |-> TRUE, agg |-> agg]
        events == read_events(store, restored.agg.id, restored.agg.aggregate_type,
                              restored.agg.version)
    IN
    IF ~restored.ok THEN [ok |-> FALSE, error |-> "SnapshotDeserializationError",
                          agg |-> restored.agg, applied |-> 0]
    ELSE IF ~snapshot_found /\ events = <<>>
    THEN [ok |-> FALSE, error |-> "AggregateNotFound", agg |-> restored.agg,
          applied |-> 0]
    ELSE LET folded == ApplyEvents(restored.agg, events) IN
         [ok |-> folded.ok,
          error |-> IF folded.ok THEN "" ELSE "ApplyEventError",
          agg |-> folded.agg, applied |-> Len(events)]

\* the mutation of SnapshotDue that tests the version before the publish call
SnapshotDueCurrent(frequency, new_version) ==
    frequency > 0 /\ (new_version - 1) % frequency = 0

\* the mutation of SnapshotDue that forgets the cadence
SnapshotDueAlways(frequency, new_version) == frequency > 0

\* `snapshot_frequency > 0 && new_version % snapshot_frequency == 0`
SnapshotDue(frequency, new_version) ==
    frequency > 0 /\ new_version % frequency = 0

\* the mutation of publish that starts the event buffer afresh
publish_fresh_buffer(source, frequency, metadata, events, snapshots, event_type, data) ==
    LET new_version == source.version + 1
        plain == EventNew(source.id, source.aggregate_type, new_version,
                          event_type, data)
        event == IF \E k \in MetaKeys : metadata[k] # NoValue
                 THEN EventAddMetadata(plain, metadata) ELSE plain
        snapshots1 == IF SnapshotDue(frequency, new_version)
                      THEN Append(snapshots, take_snapshot(source))
                      ELSE snapshots
        applied == apply_event(source, event)
    IN
    [ok |-> applied.ok, source |-> applied.agg,
     events |-> IF applied.ok THEN <<event>> ELSE <<>>,
     snapshots |-> snapshots1]

\* publish: the new aggregate and the new buffers of the context
publish(source, frequency, metadata, events, snapshots, event_type, data) ==
    LET new_version == source.version + 1
        plain == EventNew(source.id, source.aggregate_type, new_version,
                          event_type, data)
        event == IF \E k \in MetaKeys : metadata[k] # NoValue
                 THEN EventAddMetadata(plain, metadata) ELSE plain
        snapshots1 == IF SnapshotDue(frequency, new_version)
                      THEN Append(snapshots, take_snapshot(source))
                      ELSE snapshots
        applied == apply_event(source, event)
    IN
    IF applied.ok
    THEN [ok |-> TRUE, source |-> applied.agg,
          events |-> Append(events, event), snapshots |-> snapshots1]
    ELSE [ok |-> FALSE, source |-> applied.agg,
          events |-> events, snapshots |-> snapshots1]

\* CanRequest::request of a domain: the trait lets the domain refuse a command
\* with an error; the Account domain itself accepts every command it knows
CanRequest(state, command) ==
    IF command.kind = RefusedKind
    THEN [ok |-> FALSE, event_type |-> "", data |-> <<>>]
    ELSE AccountRequest(state, command)

\* the mutation of request that publishes whatever the domain answered
request_unchecked(source, frequency, metadata, events, snapshots, command) ==
    LET requested == CanRequest(source.state, command)
        published == publish(source, frequency, metadata, events, snapshots,
                             requested.event_type, requested.data) IN
    [ok |-> published.ok, rejected |-> ~requested.ok,
     source |-> published.source,
     events |-> published.events, snapshots |-> published.snapshots]

\* ComposedAggregate::request: CanRequest::request, then EventContext::publish
request(source, frequency, metadata, events, snapshots, command) ==
    LET requested == CanRequest(source.state, command) IN
    IF ~requested.ok
    THEN [ok |-> FALSE, rejected |-> TRUE, source |-> source,
          events |-> events, snapshots |-> snapshots]
    ELSE LET published == publish(source, frequency, metadata, events, snapshots,
                                  requested.event_type, requested.data) IN
         [ok |-> published.ok, rejected |-> FALSE, source |-> published.source,
          events |-> published.events, snapshots |-> published.snapshots]

(***************************************************************************)
(* State and operations.                                                   *)
(***************************************************************************)
\* the database after SqlxStorageEngine::build: every table is empty; the id
\* of a row of aggregate_types or event_types is its position in the table
DatabaseNew ==
    [aggregate_types |-> <<>>, event_types |-> <<>>, events |-> <<>>,
     snapshots |-> <<>>]

\* SqlxStorageEngine::new: empty caches (0 stands for no entry), no call in
\* flight (name and id are the locals of a get_aggregate_type_id call);
\* `returned` is the history of the ids get_aggregate_type_id gave
EngineNew ==
    [aggregate_types |-> [t \in EngineTypes |-> 0],
     event_types |-> [t \in EventTypes |-> 0],
     pc |-> "idle", name |-> "", id |-> 0,
     returned |-> [t \in EngineTypes |-> {}]]

EmptyMetadata == [k \in MetaKeys |-> NoValue]

\* no write_updates call in flight, and nothing read yet
NoWrite == [events |-> <<>>, snapshots |-> <<>>, pushed |-> 0]
NoRead == [op |-> "none"]

\* no publish call in flight on a thread; `published` counts the publish calls
\* of the thread that returned Ok
NoCall == [pc |-> "idle", published |-> 0]

\* the Mutexes of an EventContext, none of them held
Unlocked == [context |-> NoThread, captured_events |-> NoThread,
             captured_snapshots |-> NoThread]

Returned(op, id, aggregate_type, natural_key) ==
    [op |-> op, id |-> id, aggregate_type |-> aggregate_type,
     natural_key |-> natural_key]

\* the history kept of a create_aggregate_instance(aggregate_type, natural_key)
\* call that returned id
Remember(history, aggregate_type, natural_key, id) ==
    IF natural_key # NoKey /\ history[<<aggregate_type, natural_key>>] = 0
    THEN [history EXCEPT ![<<aggregate_type, natural_key>>] = id]
    ELSE history

Init ==
    /\ memory_store = MemoryStoreNew
    /\ captured_events = [c \in Contexts |-> <<>>]
    /\ captured_snapshots = [c \in Contexts |-> <<>>]
    /\ context = [c \in Contexts |-> EmptyMetadata]
    /\ commits = [c \in Contexts |-> 0]
    /\ aggregates = [a \in Aggregates |-> NoAggregate]
    /\ snapshot_frequency \in Frequencies
    /\ result = Returned("new", 0, "", "")
    /\ created = [p \in EngineTypes \X NaturalKeys |-> 0]
    /\ mutex = NoThread
    /\ pc = [c \in Contexts |-> "free"]
    /\ writing = NoWrite
    /\ observed = NoRead
    /\ locals = [a \in Aggregates |-> NoCall]
    /\ locks = [c \in Contexts |-> Unlocked]
    /\ database = DatabaseNew
    /\ engines = [e \in Engines |-> EngineNew]

\* EventStore::get_context after abandoning context c before any commit: c is
\* replaced by a fresh context and the aggregates that belonged to it are dropped
GetContext(c) ==
    /\ commits[c] = 0
    /\ \/ captured_events[c] # <<>>
       \/ captured_snapshots[c] # <<>>
       \/ context[c] # EmptyMetadata
       \/ \E a \in Aggregates : aggregates[a].live /\ aggregates[a].context = c
    /\ captured_events' = [captured_events EXCEPT ![c] = <<>>]
    /\ captured_snapshots' = [captured_snapshots EXCEPT ![c] = <<>>]
    /\ context' = [context EXCEPT ![c] = EmptyMetadata]
    /\ aggregates' = [a \in Aggregates |->
                        IF aggregates[a].live /\ aggregates[a].context = c
                        THEN NoAggregate ELSE aggregates[a]]
    /\ UNCHANGED <<thread_vars, memory_store, commits, snapshot_frequency, result, created>>

\* EventContext::add_metadata
AddMetadata(c, key, value) ==
    /\ context' = [context EXCEPT ![c][key] = value]
    /\ UNCHANGED <<thread_vars, memory_store, captured_events, captured_snapshots, commits,
                   aggregates, snapshot_frequency, result, created>>

\* ComposedAggregate::new -> EventContext::next_aggregate_id ->
\* EventStore::next_aggregate_id -> create_aggregate_instance
New(c, a, natural_key) ==
    /\ ~aggregates[a].live
    /\ memory_store.id < MaxId
    /\ LET instance == create_aggregate_instance(memory_store, AccountType,
                                                 natural_key) IN
       /\ memory_store' = instance.store
       /\ aggregates' = [aggregates EXCEPT
                            ![a] = NewAggregateObject(instance.id, AccountType,
                                                      c, "new")]
       /\ created' = Remember(created, AccountType, natural_key, instance.id)
    /\ UNCHANGED <<thread_vars, captured_events, captured_snapshots, context, commits,
                   snapshot_frequency, result>>

\* ComposedAggregate::load: a default aggregate hydrated by EventContext::load;
\* on an error the aggregate object is dropped
Load(c, a, id) ==
    /\ ~aggregates[a].live
    /\ LET loaded == load(memory_store,
                          NewAggregateObject(id, AccountType, c, "loaded")) IN
       /\ loaded.ok
       /\ aggregates' = [aggregates EXCEPT ![a] = Entered(loaded.agg)]
    /\ UNCHANGED <<thread_vars, memory_store, captured_events, captured_snapshots, context,
                   commits, snapshot_frequency, result, created>>

\* ComposedAggregate::request on the aggregate's own context
RequestStep(a, command) ==
    /\ aggregates[a].live
    /\ LET source == aggregates[a]
           c == source.context
           requested == request(source, snapshot_frequency, context[c],
                                captured_events[c], captured_snapshots[c],
                                command) IN
       /\ aggregates' = [aggregates EXCEPT
                            ![a] = [requested.source EXCEPT
                                       !.failed = source.failed
                                                  \/ (~requested.ok
                                                      /\ ~requested.rejected),
                                       !.rejected = source.rejected
                                                    \/ requested.rejected]]
       /\ captured_events' = [captured_events EXCEPT ![c] = requested.events]
       /\ captured_snapshots' = [captured_snapshots EXCEPT
                                    ![c] = requested.snapshots]
    /\ UNCHANGED <<thread_vars, memory_store, context, commits,
                   snapshot_frequency, result, created>>

\* a request within the bounds of the model
Request(a, command) ==
    /\ aggregates[a].live
    /\ aggregates[a].version < MaxVersion
    /\ Len(captured_events[aggregates[a].context]) < MaxBuffered
    /\ RequestStep(a, command)

\* EventContext::commit -> EventStore::write_updates -> write_updates
CommitStep(c) ==
    /\ LET written == write_updates(memory_store, captured_events[c],
                                    captured_snapshots[c]) IN
       /\ memory_store' = written.store
       /\ commits' = [commits EXCEPT ![c] = IF written.ok THEN @ + 1 ELSE @]
    /\ UNCHANGED <<thread_vars, captured_events, captured_snapshots, context,
                   aggregates, snapshot_frequency, result, created>>

\* a commit within the bounds of the model
Commit(c) ==
    /\ commits[c] < MaxCommits
    /\ Len(memory_store.events) + Len(captured_events[c]) <= MaxStored
    /\ CommitStep(c)

\* The program: one unit of work (c1) creates an account, another (c2) loads
\* accounts; both send commands and commit, and either may be abandoned.
Next ==
    \/ \E c \in Contexts : GetContext(c)
    \/ \E k \in ContextKeys \cup {NoKey} : New("c1", "a1", k)
    \/ \E id \in 1..MaxId : Load("c2", "a2", id)
    \/ \E a \in Aggregates, command \in Commands : Request(a, command)
    \/ \E c \in Contexts : Commit(c)

Spec == Init /\ [][Next]_vars

(***************************************************************************)
(* The storage engine driven directly, as the engine's own tests do.       *)
(***************************************************************************)
\* MemoryStorageEngine::create_aggregate_instance
CreateAggregateInstance(aggregate_type, natural_key) ==
    /\ memory_store.id < MaxId
    /\ LET instance == create_aggregate_instance(memory_store, aggregate_type,
                                                 natural_key) IN
       /\ memory_store' = instance.store
       /\ result' = Returned("create_aggregate_instance", instance.id,
                             aggregate_type, natural_key)
       /\ created' = Remember(created, aggregate_type, natural_key, instance.id)
    /\ UNCHANGED <<thread_vars, captured_events, captured_snapshots, context, commits,
                   aggregates, snapshot_frequency>>

\* MemoryStorageEngine::get_aggregate_instance_id; id 0 stands for None
GetAggregateInstanceId(aggregate_type, natural_key) ==
    /\ LET found == get_aggregate_instance_id(memory_store, aggregate_type,
                                              natural_key) IN
       result' = Returned("get_aggregate_instance_id",
                          IF found # None THEN found[1] ELSE 0,
                          aggregate_type, natural_key)
    /\ UNCHANGED <<thread_vars, memory_store, captured_events, captured_snapshots, context,
                   commits, aggregates, snapshot_frequency, created>>

EngineNext ==
    \/ \E t \in EngineTypes, k \in NaturalKeys \cup {NoKey} :
          CreateAggregateInstance(t, k)
    \/ \E t \in EngineTypes, k \in NaturalKeys : GetAggregateInstanceId(t, k)

EngineSpec == Init /\ [][EngineNext]_vars

\* The program with a second unit of work (c2) that creates or loads an
\* account, tags and publishes events, and is abandoned without a commit.
AbandonNext ==
    \/ New("c1", "a1", NoKey)
    \/ \E command \in Commands : Request("a1", command)
    \/ Commit("c1")
    \/ \E k \in ContextKeys \cup {NoKey} : New("c2", "a2", k)
    \/ \E id \in 1..MaxId : Load("c2", "a2", id)
    \/ AddMetadata("c2", "user", "chavez")
    \/ \E command \in Commands : Request("a2", command)
    \/ GetContext("c2")

AbandonSpec == Init /\ [][AbandonNext]_vars

\* One unit of work (c1) that tags its events with metadata and sends an
\* account both commands that the domain accepts and commands that it refuses.
ContextNext ==
    \/ New("c1", "a1", NoKey)
    \/ \E k \in MetaKeys, v \in MetaValues : AddMetadata("c1", k, v)
    \/ \E command \in Commands \cup RefusedCommands : Request("a1", command)
    \/ Commit("c1")

ContextSpec == Init /\ [][ContextNext]_vars

\* EventContext::load on an aggregate object that the caller keeps: the object
\* is left as load left it, with the error load returned
ContextLoad(c, a, id) ==
    /\ ~aggregates[a].live
    /\ LET loaded == load(memory_store,
                          NewAggregateObject(id, AccountType, c, "loaded")) IN
       aggregates' = [aggregates EXCEPT
                         ![a] = [Entered(loaded.agg) EXCEPT
                                    !.origin = IF loaded.ok THEN "loaded"
                                               ELSE loaded.error]]
    /\ UNCHANGED <<thread_vars, memory_store, captured_events,
                   captured_snapshots, context, commits, snapshot_frequency,
                   result, created>>

\* One unit of work (c1) creates an account, sends commands and commits;
\* another (c2) tries to load an account by identifier, found or not.
LoadNext ==
    \/ \E k \in ContextKeys \cup {NoKey} : New("c1", "a1", k)
    \/ \E command \in Commands : Request("a1", command)
    \/ Commit("c1")
    \/ \E id \in 1..MaxId : ContextLoad("c2", "a2", id)
    \/ GetContext("c2")

LoadSpec == Init /\ [][LoadNext]_vars

(***************************************************************************)
(* EventStore::with_context: a task run against a fresh context.           *)
(***************************************************************************)
\* the mutation of with_context that commits whatever the task returned
with_context_always(store, events, snapshots, task_ok) ==
    LET written == write_updates(store, events, snapshots) IN
    [ok |-> task_ok /\ written.ok, committed |-> 1, store |-> written.store]

\* `context_task(context.clone()).await?; context.commit().await?; Ok(())`
with_context(store, events, snapshots, task_ok) ==
    IF ~task_ok
    THEN [ok |-> FALSE, committed |-> 0, store |-> store]
    ELSE LET written == write_updates(store, events, snapshots) IN
         [ok |-> written.ok, committed |-> 1, store |-> written.store]

\* with_context up to the call of the task: `let context = self.get_context()`
WithContextCall(c) ==
    /\ pc[c] = "free"
    /\ commits[c] = 0
    /\ captured_events[c] = <<>> /\ captured_snapshots[c] = <<>>
    /\ context[c] = EmptyMetadata
    /\ \A a \in Aggregates : ~(aggregates[a].live /\ aggregates[a].context = c)
    /\ pc' = [pc EXCEPT ![c] = "task"]
    /\ UNCHANGED <<memory_store, captured_events, captured_snapshots, context,
                   commits, aggregates, snapshot_frequency, result, created,
                   mutex, writing, observed, locals,
                   locks,
                   database, engines>>

\* with_context from the return of the task on
WithContextReturn(c, task_ok) ==
    /\ pc[c] = "task"
    /\ LET returned == with_context(memory_store, captured_events[c],
                                    captured_snapshots[c], task_ok) IN
       /\ memory_store' = returned.store
       /\ commits' = [commits EXCEPT ![c] = @ + returned.committed]
       /\ pc' = [pc EXCEPT ![c] = IF returned.ok THEN "returned_ok"
                                  ELSE "returned_err"]
    /\ UNCHANGED <<captured_events, captured_snapshots, context, aggregates,
                   snapshot_frequency, result, created, mutex, writing,
                   observed, locals,
                   locks,
                   database, engines>>

\* A task run by with_context on c1 creates an account and sends commands,
\* then returns Ok or an error; another unit of work (c2) loads what is stored.
WithContextNext ==
    \/ WithContextCall("c1")
    \/ \E k \in ContextKeys \cup {NoKey} : pc["c1"] = "task" /\ New("c1", "a1", k)
    \/ \E command \in Commands : pc["c1"] = "task" /\ Request("a1", command)
    \/ \E task_ok \in BOOLEAN : WithContextReturn("c1", task_ok)
    \/ \E id \in 1..MaxId : Load("c2", "a2", id)

WithContextSpec == Init /\ [][WithContextNext]_vars

(***************************************************************************)
(* The engine's Mutex: write_updates step by step against a reader thread. *)
(***************************************************************************)
\* the mutation of MutexLock that lets every thread in
MutexLockShared(holder, thread) == TRUE

\* `self.memory_store.lock()`: granted when no thread holds the guard
MutexLock(holder, thread) == holder = NoThread

\* what the push loops of write_updates append next: the events first, then
\* the snapshots
PushNext(store, call) ==
    IF call.pushed < Len(call.events)
    THEN [store EXCEPT !.events = Append(@, call.events[call.pushed + 1])]
    ELSE [store EXCEPT
             !.snapshots = Append(@, call.snapshots[call.pushed + 1
                                                    - Len(call.events)])]

\* EventContext::commit up to the call of write_updates: the buffers are
\* cloned and handed over
WriteUpdatesCall(c) ==
    /\ pc[c] = "free"
    /\ writing = NoWrite
    /\ commits[c] < MaxCommits
    /\ Len(memory_store.events) + Len(captured_events[c]) <= MaxStored
    /\ pc' = [pc EXCEPT ![c] = "lock"]
    /\ writing' = [events |-> captured_events[c],
                   snapshots |-> captured_snapshots[c], pushed |-> 0]
    /\ UNCHANGED <<memory_store, captured_events, captured_snapshots, context,
                   commits, aggregates, snapshot_frequency, result, created,
                   mutex, observed, locals,
                   locks,
                   database, engines>>

\* write_updates: `let mut memory_store = self.memory_store.lock().unwrap()`
WriteUpdatesLock(c) ==
    /\ pc[c] = "lock"
    /\ MutexLock(mutex, c)
    /\ mutex' = c
    /\ pc' = [pc EXCEPT ![c] = "push"]
    /\ UNCHANGED <<memory_store, captured_events, captured_snapshots, context,
                   commits, aggregates, snapshot_frequency, result, created,
                   writing, observed, locals,
                   locks,
                   database, engines>>

\* write_updates: one iteration of either push loop
WriteUpdatesPush(c) ==
    /\ pc[c] = "push"
    /\ writing.pushed < Len(writing.events) + Len(writing.snapshots)
    /\ memory_store' = PushNext(memory_store, writing)
    /\ writing' = [writing EXCEPT !.pushed = @ + 1]
    /\ UNCHANGED <<captured_events, captured_snapshots, context, commits,
                   aggregates, snapshot_frequency, result, created, mutex, pc,
                   observed, locals,
                   locks,
                   database, engines>>

\* write_updates returns Ok(()): the guard is dropped and commit returns
WriteUpdatesReturn(c) ==
    /\ pc[c] = "push"
    /\ writing.pushed = Len(writing.events) + Len(writing.snapshots)
    /\ mutex' = NoThread
    /\ pc' = [pc EXCEPT ![c] = "free"]
    /\ writing' = NoWrite
    /\ commits' = [commits EXCEPT ![c] = @ + 1]
    /\ UNCHANGED <<memory_store, captured_events, captured_snapshots, context,
                   aggregates, snapshot_frequency, result, created, observed, locals,
                   locks,
                   database, engines>>

\* MemoryStorageEngine::read_events called by another thread: lock, filter,
\* unlock
ReadEvents(aggregate_id, aggregate_type, version) ==
    /\ MutexLock(mutex, "reader")
    /\ observed' = [op |-> "read_events", aggregate_id |-> aggregate_id,
                    aggregate_type |-> aggregate_type, version |-> version,
                    value |-> read_events(memory_store, aggregate_id,
                                          aggregate_type, version),
                    concurrent |-> \E c \in Contexts : pc[c] # "free"]
    /\ UNCHANGED <<memory_store, captured_events, captured_snapshots, context,
                   commits, aggregates, snapshot_frequency, result, created,
                   mutex, pc, writing, locals,
                   locks,
                   database, engines>>

\* MemoryStorageEngine::read_snapshot called by another thread
ReadSnapshot(aggregate_id, aggregate_type) ==
    /\ MutexLock(mutex, "reader")
    /\ observed' = [op |-> "read_snapshot", aggregate_id |-> aggregate_id,
                    aggregate_type |-> aggregate_type, version |-> 0,
                    value |-> read_snapshot(memory_store, aggregate_id,
                                            aggregate_type),
                    concurrent |-> \E c \in Contexts : pc[c] # "free"]
    /\ UNCHANGED <<memory_store, captured_events, captured_snapshots, context,
                   commits, aggregates, snapshot_frequency, result, created,
                   mutex, pc, writing, locals,
                   locks,
                   database, engines>>

\* One unit of work (c1) creates an account, sends commands and commits while
\* a reader thread reads the engine.
ConcurrentNext ==
    \/ New("c1", "a1", NoKey)
    \/ \E command \in Commands : Request("a1", command)
    \/ WriteUpdatesCall("c1")
    \/ WriteUpdatesLock("c1")
    \/ WriteUpdatesPush("c1")
    \/ WriteUpdatesReturn("c1")
    \/ \E version \in 0..1 : ReadEvents(1, AccountType, version)
    \/ ReadSnapshot(1, AccountType)

ConcurrentSpec == Init /\ [][ConcurrentNext]_vars

(***************************************************************************)
(* The engine's log written and read directly, batch by batch.             *)
(***************************************************************************)
\* the (aggregate_id, aggregate_type) pairs the log is written and read for
LogAggregates == {<<1, "account">>, <<2, "account">>, <<1, "user">>}

\* batches of at most one event and one snapshot, of any version
LogEvents ==
    {<<>>} \cup {<<EventNew(p[1], p[2], v, "credited",
                           EncodeEvent("AccountCredited", v))>> :
                    p \in LogAggregates, v \in 1..MaxVersion}

LogSnapshots ==
    {<<>>} \cup {<<SnapshotNew(p[1], p[2], v, [balance |-> v])>> :
                    p \in LogAggregates, v \in 1..MaxVersion}

\* MemoryStorageEngine::write_updates called directly
WriteUpdates(events, snapshots) ==
    /\ Len(memory_store.events) + Len(memory_store.snapshots)
          + Len(events) + Len(snapshots) <= MaxStored
    /\ MutexLock(mutex, "writer")
    /\ memory_store' = write_updates(memory_store, events, snapshots).store
    /\ UNCHANGED <<thread_vars, captured_events, captured_snapshots, context,
                   commits, aggregates, snapshot_frequency, result, created>>

LogNext ==
    \/ \E events \in LogEvents, snapshots \in LogSnapshots :
          WriteUpdates(events, snapshots)
    \/ \E p \in LogAggregates, version \in 0..MaxVersion :
          ReadEvents(p[1], p[2], version)
    \/ \E p \in LogAggregates : ReadSnapshot(p[1], p[2])

LogSpec == Init /\ [][LogNext]_vars

(***************************************************************************)
(* EventContext::commit over a storage engine whose write may fail.        *)
(***************************************************************************)
\* EventStoreStorageEngine::write_updates of an engine that answers with an
\* error: nothing of the batch is stored
write_updates_err(store, events, snapshots) == [ok |-> FALSE, store |-> store]

\* the mutation of commit that tries again after an error
commit_retry(store, events, snapshots, write_ok) ==
    LET written == write_updates(store, events, snapshots) IN
    [ok |-> written.ok, attempts |-> IF write_ok THEN 1 ELSE 2,
     store |-> written.store, events |-> events, snapshots |-> snapshots]

\* EventContext::commit: the buffers are cloned, write_updates is awaited once
\* and its error returned with `?`; the result, the number of write_updates
\* calls, the store and the context's buffers afterwards
commit(store, events, snapshots, write_ok) ==
    LET written == IF write_ok THEN write_updates(store, events, snapshots)
                   ELSE write_updates_err(store, events, snapshots) IN
    [ok |-> written.ok, attempts |-> 1, store |-> written.store,
     events |-> events, snapshots |-> snapshots]

CommitReturned(ok, attempts) ==
    [op |-> "commit", ok |-> ok, attempts |-> attempts, id |-> 0,
     aggregate_type |-> "", natural_key |-> ""]

\* EventContext::commit over an engine whose write_updates succeeds or fails
CommitEngine(c, write_ok) ==
    /\ commits[c] < MaxCommits
    /\ Len(memory_store.events) + Len(captured_events[c]) <= MaxStored
    /\ LET returned == commit(memory_store, captured_events[c],
                              captured_snapshots[c], write_ok) IN
       /\ memory_store' = returned.store
       /\ captured_events' = [captured_events EXCEPT ![c] = returned.events]
       /\ captured_snapshots' = [captured_snapshots EXCEPT
                                    ![c] = returned.snapshots]
       /\ commits' = [commits EXCEPT ![c] = IF returned.ok THEN @ + 1 ELSE @]
       /\ result' = CommitReturned(returned.ok, returned.attempts)
    /\ UNCHANGED <<thread_vars, context, aggregates, snapshot_frequency,
                   created>>

\* One unit of work (c1) creates an account, sends commands and commits to an
\* engine that may refuse the write; another (c2) loads what is stored.
FailingNext ==
    \/ New("c1", "a1", NoKey)
    \/ \E command \in Commands : Request("a1", command)
    \/ \E write_ok \in BOOLEAN : CommitEngine("c1", write_ok)
    \/ \E id \in 1..MaxId : Load("c2", "a2", id)

FailingSpec == Init /\ [][FailingNext]_vars

(***************************************************************************)
(* Loading from a log that was written directly.                           *)
(***************************************************************************)
\* a snapshot whose data is not the JSON of an Account
CorruptSnapshot(aggregate_id, aggregate_type, version) ==
    [aggregate_id |-> aggregate_id, aggregate_type |-> aggregate_type,
     version |-> version, data |-> <<"{", "balance">>]

ReplayEvents ==
    {<<>>} \cup {<<EventNew(1, AccountType, v, "credited",
                           EncodeEvent("AccountCredited", v))>> :
                    v \in 1..MaxVersion}

ReplaySnapshots ==
    {<<>>}
    \cup {<<SnapshotNew(1, AccountType, v, [balance |-> v])>> : v \in 1..MaxVersion}
    \cup {<<CorruptSnapshot(1, AccountType, v)>> : v \in 1..MaxVersion}

\* the events that load hands to apply_event, in the order of its loop
Replayed(store, agg) ==
    LET snapshot == read_snapshot(store, agg.id, agg.aggregate_type)
        restored == IF snapshot # None THEN apply_snapshot(agg, snapshot[1])
                    ELSE [ok |-> TRUE, agg |-> agg] IN
    read_events(store, restored.agg.id, restored.agg.aggregate_type,
                restored.agg.version)

\* Batches are written to the engine directly; a unit of work (c2) loads an
\* account from what is stored.
ReplayNext ==
    \/ \E events \in ReplayEvents, snapshots \in ReplaySnapshots :
          WriteUpdates(events, snapshots)
    \/ \E id \in 1..MaxId : ContextLoad("c2", "a2", id)
    \/ GetContext("c2")

ReplaySpec == Init /\ [][ReplayNext]_vars

(***************************************************************************)
(* The scenario of tests::ensure_takes_snapshots.                          *)
(***************************************************************************)
ScenarioFrequency == 10     \* the default ComposedImpl::snapshot_frequency
ScenarioEvents == 100       \* credit commands sent
ScenarioAmount == 100       \* amount of each credit

ScenarioCredit == [kind |-> "CreditAccount", amount |-> ScenarioAmount]

ScenarioInit ==
    /\ memory_store = MemoryStoreNew
    /\ captured_events = [c \in Contexts |-> <<>>]
    /\ captured_snapshots = [c \in Contexts |-> <<>>]
    /\ context = [c \in Contexts |-> EmptyMetadata]
    /\ commits = [c \in Contexts |-> 0]
    /\ aggregates = [a \in Aggregates |-> NoAggregate]
    /\ snapshot_frequency = ScenarioFrequency
    /\ result = Returned("new", 0, "", "")
    /\ created = [p \in EngineTypes \X NaturalKeys |-> 0]
    /\ mutex = NoThread
    /\ pc = [c \in Contexts |-> "free"]
    /\ writing = NoWrite
    /\ observed = NoRead
    /\ locals = [a \in Aggregates |-> NoCall]
    /\ locks = [c \in Contexts |-> Unlocked]
    /\ database = DatabaseNew
    /\ engines = [e \in Engines |-> EngineNew]

\* one context creates an account, credits it ScenarioEvents times and
\* commits; a second context loads the account
ScenarioNext ==
    \/ New("c1", "a1", NoKey)
    \/ /\ aggregates["a1"].live
       /\ aggregates["a1"].version < ScenarioEvents
       /\ RequestStep("a1", ScenarioCredit)
    \/ /\ aggregates["a1"].live
       /\ aggregates["a1"].version = ScenarioEvents
       /\ commits["c1"] = 0
       /\ CommitStep("c1")
    \/ Load("c2", "a2", 1)

ScenarioSpec == ScenarioInit /\ [][ScenarioNext]_vars

(***************************************************************************)
(* EventContext::publish with the encoders of serde failing.               *)
(***************************************************************************)
\* the serde call of publish that returns an error, if any: the payload of
\* Event::new, the map of Event::add_metadata, the state of take_snapshot
Faults == {"none", "payload", "metadata", "snapshot"}

\* the mutation of publish that looks at the errors after the work is done
publish_fault_late(source, frequency, metadata, events, snapshots, event_type, data, fault) ==
    LET published == publish(source, frequency, metadata, events, snapshots,
                             event_type, data) IN
    [ok |-> published.ok /\ fault = "none",
     stage |-> IF fault = "none"
               THEN (IF published.ok THEN "done" ELSE "apply") ELSE fault,
     source |-> published.source, events |-> published.events,
     snapshots |-> published.snapshots]

\* publish, each `?` in its order: Event::new, add_metadata when the map is
\* not empty, take_snapshot when a snapshot is due, then the rest
publish_fault(source, frequency, metadata, events, snapshots, event_type, data, fault) ==
    LET new_version == source.version + 1
        unchanged(stage) == [ok |-> FALSE, stage |-> stage, source |-> source,
                             events |-> events, snapshots |-> snapshots]
        published == publish(source, frequency, metadata, events, snapshots,
                             event_type, data)
    IN
    IF fault = "payload" THEN unchanged("payload")
    ELSE IF fault = "metadata" /\ (\E k \in MetaKeys : metadata[k] # NoValue)
    THEN unchanged("metadata")
    ELSE IF fault = "snapshot" /\ SnapshotDue(frequency, new_version)
    THEN unchanged("snapshot")
    ELSE [ok |-> published.ok,
          stage |-> IF published.ok THEN "done" ELSE "apply",
          source |-> published.source, events |-> published.events,
          snapshots |-> published.snapshots]

\* what a publish call returned, and the step of publish that failed
PublishReturned(ok, stage) ==
    [op |-> "publish", ok |-> ok, stage |-> stage, id |-> 0,
     aggregate_type |-> "", natural_key |-> ""]

\* a request whose publish may meet a failing encoder
PublishFault(a, command, fault) ==
    /\ aggregates[a].live
    /\ aggregates[a].version < MaxVersion
    /\ Len(captured_events[aggregates[a].context]) < MaxBuffered
    /\ LET source == aggregates[a]
           c == source.context
           requested == CanRequest(source.state, command)
           published == publish_fault(source, snapshot_frequency, context[c],
                                      captured_events[c], captured_snapshots[c],
                                      requested.event_type, requested.data,
                                      fault) IN
       /\ requested.ok
       /\ aggregates' = [aggregates EXCEPT
                            ![a] = [published.source EXCEPT
                                       !.failed = @ \/ ~published.ok]]
       /\ captured_events' = [captured_events EXCEPT ![c] = published.events]
       /\ captured_snapshots' = [captured_snapshots EXCEPT
                                    ![c] = published.snapshots]
       /\ result' = PublishReturned(published.ok, published.stage)
    /\ UNCHANGED <<thread_vars, memory_store, context, commits,
                   snapshot_frequency, created>>

\* One unit of work (c1) that tags its events and publishes the events of an
\* account while the encoders may fail.
FaultNext ==
    \/ New("c1", "a1", NoKey)
    \/ \E k \in MetaKeys, v \in MetaValues : AddMetadata("c1", k, v)
    \/ \E command \in Commands, fault \in Faults :
          PublishFault("a1", command, fault)

FaultSpec == Init /\ [][FaultNext]_vars

(***************************************************************************)
(* EventContext::publish step by step: threads sharing one context.        *)
(***************************************************************************)
\* publish up to `let context = self.context.lock()?`: the event is built
\* from the source's version; command is one that the domain accepts
PublishCall(a, command) ==
    /\ aggregates[a].live
    /\ locals[a].pc = "idle"
    /\ aggregates[a].version < MaxVersion
    /\ LET source == aggregates[a]
           requested == CanRequest(source.state, command) IN
       /\ requested.ok
       /\ locals' = [locals EXCEPT
                        ![a] = [pc |-> "lock", published |-> @.published,
                                event |-> EventNew(source.id,
                                                   source.aggregate_type,
                                                   source.version + 1,
                                                   requested.event_type,
                                                   requested.data),
                                buffer |-> <<>>]]
    /\ UNCHANGED <<memory_store, captured_events, captured_snapshots, context,
                   commits, aggregates, snapshot_frequency, result, created,
                   mutex, pc, writing, observed, locks,
                   database, engines>>

\* `let context = self.context.lock()?` and the metadata of the event; the
\* guard lives until publish returns
PublishLock(a) ==
    /\ locals[a].pc = "lock"
    /\ LET c == aggregates[a].context IN
       /\ MutexLock(locks[c].context, a)
       /\ locks' = [locks EXCEPT ![c].context = a]
       /\ locals' = [locals EXCEPT
                        ![a].pc = "snapshot",
                        ![a].event = IF context[c] # EmptyMetadata
                                     THEN EventAddMetadata(@, context[c])
                                     ELSE @]
    /\ UNCHANGED <<memory_store, captured_events, captured_snapshots, context,
                   commits, aggregates, snapshot_frequency, result, created,
                   mutex, pc, writing, observed,
                   database, engines>>

\* the snapshot, when one is due: `self.captured_snapshots.lock()?.push(..)`
PublishSnapshot(a) ==
    /\ locals[a].pc = "snapshot"
    /\ LET c == aggregates[a].context IN
       IF SnapshotDue(snapshot_frequency, locals[a].event.version)
       THEN /\ MutexLock(locks[c].captured_snapshots, a)
            /\ captured_snapshots' =
                  [captured_snapshots EXCEPT
                      ![c] = Append(@, take_snapshot(aggregates[a]))]
       ELSE UNCHANGED captured_snapshots
    /\ locals' = [locals EXCEPT ![a].pc = "apply"]
    /\ UNCHANGED <<memory_store, captured_events, context, commits, aggregates,
                   snapshot_frequency, result, created, mutex, pc, writing,
                   observed, locks,
                   database, engines>>

\* `source.apply_event(&event)?`: on an error publish returns and the guard
\* of the context is dropped
PublishApply(a) ==
    /\ locals[a].pc = "apply"
    /\ LET c == aggregates[a].context
           applied == apply_event(aggregates[a], locals[a].event) IN
       /\ aggregates' = [aggregates EXCEPT
                            ![a] = [applied.agg EXCEPT
                                       !.failed = @ \/ ~applied.ok]]
       /\ IF applied.ok
          THEN /\ locals' = [locals EXCEPT ![a].pc = "push"]
               /\ UNCHANGED locks
          ELSE /\ locals' = [locals EXCEPT
                                ![a] = [pc |-> "idle", published |-> @.published]]
               /\ locks' = [locks EXCEPT ![c].context = NoThread]
    /\ UNCHANGED <<memory_store, captured_events, captured_snapshots, context,
                   commits, snapshot_frequency, result, created, mutex, pc,
                   writing, observed,
                   database, engines>>

\* `self.captured_events.lock()?` and the read of the Vec by push
PublishLoadBuffer(a) ==
    /\ locals[a].pc = "push"
    /\ LET c == aggregates[a].context IN
       /\ MutexLock(locks[c].captured_events, a)
       /\ locks' = [locks EXCEPT ![c].captured_events = a]
       /\ locals' = [locals EXCEPT ![a].pc = "store",
                                   ![a].buffer = captured_events[c]]
    /\ UNCHANGED <<memory_store, captured_events, captured_snapshots, context,
                   commits, aggregates, snapshot_frequency, result, created,
                   mutex, pc, writing, observed,
                   database, engines>>

\* the write of the Vec by push, and `Ok(())`: both guards are dropped
PublishReturn(a) ==
    /\ locals[a].pc = "store"
    /\ LET c == aggregates[a].context IN
       /\ captured_events' = [captured_events EXCEPT
                                 ![c] = Append(locals[a].buffer, locals[a].event)]
       /\ locks' = [locks EXCEPT ![c].captured_events = NoThread,
                                 ![c].context = NoThread]
    /\ locals' = [locals EXCEPT
                     ![a] = [pc |-> "idle", published |-> @.published + 1]]
    /\ UNCHANGED <<memory_store, captured_snapshots, context, commits,
                   aggregates, snapshot_frequency, result, created, mutex, pc,
                   writing, observed,
                   database, engines>>

\* Two threads, each with an account of its own created in the one context
\* c1, publish at the same time.
SharedNext ==
    \/ \E a \in Aggregates : New("c1", a, NoKey)
    \/ \E a \in Aggregates, command \in Commands : PublishCall(a, command)
    \/ \E a \in Aggregates : PublishLock(a)
    \/ \E a \in Aggregates : PublishSnapshot(a)
    \/ \E a \in Aggregates : PublishApply(a)
    \/ \E a \in Aggregates : PublishLoadBuffer(a)
    \/ \E a \in Aggregates : PublishReturn(a)

SharedSpec == Init /\ [][SharedNext]_vars

(***************************************************************************)
(* EventContext::commit step by step, on a thread of its own.              *)
(***************************************************************************)
\* `let events = self.captured_events.lock()?.clone();` the guard is dropped
\* at the end of the statement
CommitCloneEvents(c) ==
    /\ pc[c] = "free"
    /\ writing = NoWrite
    /\ commits[c] < MaxCommits
    /\ Len(memory_store.events) + Len(captured_events[c]) <= MaxStored
    /\ MutexLock(locks[c].captured_events, c)
    /\ pc' = [pc EXCEPT ![c] = "clone_snapshots"]
    /\ writing' = [events |-> captured_events[c], snapshots |-> <<>>,
                   pushed |-> 0]
    /\ UNCHANGED <<memory_store, captured_events, captured_snapshots, context,
                   commits, aggregates, snapshot_frequency, result, created,
                   mutex, observed, locals, locks,
                   database, engines>>

\* `let snapshots = self.captured_snapshots.lock()?.clone();`
CommitCloneSnapshots(c) ==
    /\ pc[c] = "clone_snapshots"
    /\ MutexLock(locks[c].captured_snapshots, c)
    /\ pc' = [pc EXCEPT ![c] = "write"]
    /\ writing' = [writing EXCEPT !.snapshots = captured_snapshots[c]]
    /\ UNCHANGED <<memory_store, captured_events, captured_snapshots, context,
                   commits, aggregates, snapshot_frequency, result, created,
                   mutex, observed, locals, locks,
                   database, engines>>

\* `self.event_store.write_updates(&events, &snapshots).await?; Ok(())`
CommitWrite(c) ==
    /\ pc[c] = "write"
    /\ MutexLock(mutex, c)
    /\ LET written == write_updates(memory_store, writing.events,
                                    writing.snapshots) IN
       /\ memory_store' = written.store
       /\ commits' = [commits EXCEPT ![c] = IF written.ok THEN @ + 1 ELSE @]
    /\ pc' = [pc EXCEPT ![c] = "free"]
    /\ writing' = NoWrite
    /\ UNCHANGED <<captured_events, captured_snapshots, context, aggregates,
                   snapshot_frequency, result, created, mutex, observed,
                   locals, locks,
                   database, engines>>

\* One thread publishes the events of account a1 of context c1 while another
\* commits the context.
RaceNext ==
    \/ New("c1", "a1", NoKey)
    \/ \E command \in Commands : PublishCall("a1", command)
    \/ PublishLock("a1")
    \/ PublishSnapshot("a1")
    \/ PublishApply("a1")
    \/ PublishLoadBuffer("a1")
    \/ PublishReturn("a1")
    \/ CommitCloneEvents("c1")
    \/ CommitCloneSnapshots("c1")
    \/ CommitWrite("c1")

RaceSpec == Init /\ [][RaceNext]_vars

(***************************************************************************)
(* MemoryStorageEngine::create_aggregate_instance step by step: callers on *)
(* several threads, none with a natural key.                               *)
(***************************************************************************)
\* the identities a thread was given so far, with the type it asked for
IdsOf(call) == IF "ids" \in DOMAIN call THEN call.ids ELSE <<>>

\* `let mut memory_store = self.memory_store.lock().unwrap();`
AllocLock(a, aggregate_type) ==
    /\ locals[a].pc = "idle"
    /\ memory_store.id < MaxStored
    /\ MutexLock(mutex, a)
    /\ mutex' = a
    /\ locals' = [locals EXCEPT
                     ![a] = [pc |-> "increment", published |-> @.published,
                             aggregate_type |-> aggregate_type, id |-> 0,
                             ids |-> IdsOf(@)]]
    /\ UNCHANGED <<memory_store, captured_events, captured_snapshots, context,
                   commits, aggregates, snapshot_frequency, result, created,
                   pc, writing, observed, locks,
                   database, engines>>

\* `memory_store.id += 1;`
AllocIncrement(a) ==
    /\ locals[a].pc = "increment"
    /\ memory_store' = [memory_store EXCEPT !.id = @ + 1]
    /\ locals' = [locals EXCEPT ![a].pc = "read"]
    /\ UNCHANGED <<captured_events, captured_snapshots, context, commits,
                   aggregates, snapshot_frequency, result, created, mutex, pc,
                   writing, observed, locks,
                   database, engines>>

\* `let id = memory_store.id;`
AllocRead(a) ==
    /\ locals[a].pc = "read"
    /\ locals' = [locals EXCEPT ![a].pc = "return", ![a].id = memory_store.id]
    /\ UNCHANGED <<memory_store, captured_events, captured_snapshots, context,
                   commits, aggregates, snapshot_frequency, result, created,
                   mutex, pc, writing, observed, locks,
                   database, engines>>

\* natural_key is None: `Ok(id)`, and the guard is dropped
AllocReturn(a) ==
    /\ locals[a].pc = "return"
    /\ mutex' = NoThread
    /\ locals' = [locals EXCEPT
                     ![a] = [pc |-> "idle", published |-> @.published,
                             ids |-> Append(@.ids,
                                            [id |-> @.id,
                                             aggregate_type |-> @.aggregate_type])]]
    /\ UNCHANGED <<memory_store, captured_events, captured_snapshots, context,
                   commits, aggregates, snapshot_frequency, result, created,
                   pc, writing, observed, locks,
                   database, engines>>

\* Two threads ask a fresh engine for identities of any type.
AllocNext ==
    \/ \E a \in Aggregates, t \in EngineTypes : AllocLock(a, t)
    \/ \E a \in Aggregates : AllocIncrement(a)
    \/ \E a \in Aggregates : AllocRead(a)
    \/ \E a \in Aggregates : AllocReturn(a)

AllocSpec == Init /\ [][AllocNext]_vars

(***************************************************************************)
(* EventContext::load on an aggregate object that is already hydrated.     *)
(***************************************************************************)
\* what a load call returned
LoadReturned(ok, error, id, aggregate_type) ==
    [op |-> "load", ok |-> ok, error |-> error, id |-> id,
     aggregate_type |-> aggregate_type, natural_key |-> ""]

\* EventContext::load(&mut aggregate) on the aggregate object the caller holds
LoadAgain(a) ==
    /\ aggregates[a].live
    /\ LET loaded == load(memory_store, aggregates[a]) IN
       /\ aggregates' = [aggregates EXCEPT ![a] = loaded.agg]
       /\ result' = LoadReturned(loaded.ok, loaded.error, aggregates[a].id,
                                 aggregates[a].aggregate_type)
    /\ UNCHANGED <<thread_vars, memory_store, captured_events,
                   captured_snapshots, context, commits, snapshot_frequency,
                   created>>

\* One unit of work (c1) creates an account, sends commands and commits;
\* another (c2) loads the account and later loads it again.
ReloadNext ==
    \/ New("c1", "a1", NoKey)
    \/ \E command \in Commands : Request("a1", command)
    \/ Commit("c1")
    \/ \E id \in 1..MaxId : Load("c2", "a2", id)
    \/ LoadAgain("a2")

ReloadSpec == Init /\ [][ReloadNext]_vars

(***************************************************************************)
(* publish, add_metadata and commit called at once on one EventContext.    *)
(***************************************************************************)
\* the mutation of MutexGuardDrop that leaks the guard (the Mutex stays held)
MutexGuardLeak(thread) == thread

\* the holder of a Mutex once the temporary guard of
\* `self.context.lock()?.insert(..)` is dropped at the end of the statement
MutexGuardDrop(thread) == NoThread

\* a thread enters add_metadata(key, value) on the context of its aggregate
MetadataCall(a, key, value) ==
    /\ aggregates[a].live
    /\ locals[a].pc = "idle"
    /\ locals' = [locals EXCEPT
                     ![a] = [pc |-> "metadata", published |-> @.published,
                             key |-> key, value |-> value]]
    /\ UNCHANGED <<memory_store, captured_events, captured_snapshots, context,
                   commits, aggregates, snapshot_frequency, result, created,
                   mutex, pc, writing, observed, locks,
                   database, engines>>

\* `self.context.lock()?.insert(key.to_string(), value.to_string()); Ok(())`
MetadataInsert(a) ==
    /\ locals[a].pc = "metadata"
    /\ LET c == aggregates[a].context IN
       /\ MutexLock(locks[c].context, a)
       /\ context' = [context EXCEPT ![c][locals[a].key] = locals[a].value]
       /\ locks' = [locks EXCEPT ![c].context = MutexGuardDrop(a)]
    /\ locals' = [locals EXCEPT
                     ![a] = [pc |-> "idle", published |-> @.published]]
    /\ UNCHANGED <<memory_store, captured_events, captured_snapshots, commits,
                   aggregates, snapshot_frequency, result, created, mutex, pc,
                   writing, observed,
                   database, engines>>

\* the steps of the call a thread is in
ThreadStep(a) ==
    \/ PublishLock(a)
    \/ PublishSnapshot(a)
    \/ PublishApply(a)
    \/ PublishLoadBuffer(a)
    \/ PublishReturn(a)
    \/ MetadataInsert(a)

\* the steps of a commit that has begun
CommitterStep(c) == CommitCloneSnapshots(c) \/ CommitWrite(c)

\* the first commit call of the context begins
CommitOnce(c) == commits[c] = 0 /\ CommitCloneEvents(c)

\* Two threads, each with an account of context c1: one publishes, the other
\* adds metadata, while a third thread commits the context once.
DeadlockNext ==
    \/ \E a \in Aggregates : New("c1", a, NoKey)
    \/ \E command \in Commands : PublishCall("a1", command)
    \/ MetadataCall("a2", "user", "chavez")
    \/ \E a \in Aggregates : ThreadStep(a)
    \/ CommitOnce("c1")
    \/ CommitterStep("c1")

\* the snapshot frequency is 1, so that every publish call locks all three
\* Mutexes of the context
DeadlockInit == Init /\ snapshot_frequency = 1

\* every thread that is in a call and can take a step eventually takes one
DeadlockSpec ==
    /\ DeadlockInit
    /\ [][DeadlockNext]_vars
    /\ \A a \in Aggregates : WF_vars(ThreadStep(a))
    /\ WF_vars(CommitterStep("c1"))

(***************************************************************************)
(* Several aggregates of one unit of work.                                 *)
(***************************************************************************)
\* One unit of work (c1) creates two accounts, tags its events and sends
\* commands to either account.
FrameNext ==
    \/ \E a \in Aggregates : New("c1", a, NoKey)
    \/ AddMetadata("c1", "user", "chavez")
    \/ \E a \in Aggregates, command \in Commands : Request(a, command)

FrameSpec == Init /\ [][FrameNext]_vars

(***************************************************************************)
(* SqlxStorageEngine: the storage engine over an SQL database.             *)
(***************************************************************************)
\* the id of the row of a types table that holds name, 0 if there is none
TypeRow(names, name) ==
    IF \E i \in 1..Len(names) : names[i] = name
    THEN CHOOSE i \in 1..Len(names) : names[i] = name
    ELSE 0

\* the mutation of insert_or_get_aggregate_type with no ON CONFLICT clause on a
\* table with no UNIQUE(name): every call inserts a row
insert_aggregate_type(db, name) ==
    [id |-> Len(db.aggregate_types) + 1,
     db |-> [db EXCEPT !.aggregate_types = Append(@, name)]]

\* `INSERT INTO aggregate_types (name) VALUES ($1) ON CONFLICT (name) DO UPDATE
\* SET name = $1 RETURNING id;` one statement, atomic in the database
insert_or_get_aggregate_type(db, name) ==
    IF TypeRow(db.aggregate_types, name) # 0
    THEN [id |-> TypeRow(db.aggregate_types, name), db |-> db]
    ELSE [id |-> Len(db.aggregate_types) + 1,
          db |-> [db EXCEPT !.aggregate_types = Append(@, name)]]

\* the same statement on event_types
insert_or_get_event_type(db, name) ==
    IF TypeRow(db.event_types, name) # 0
    THEN [id |-> TypeRow(db.event_types, name), db |-> db]
    ELSE [id |-> Len(db.event_types) + 1,
          db |-> [db EXCEPT !.event_types = Append(@, name)]]

\* SqlxStorageEngine::get_aggregate_type_id as one call: the cache, else the
\* database and then the cache
get_aggregate_type_id(db, engine, aggregate_type) ==
    IF engine.aggregate_types[aggregate_type] # 0
    THEN [id |-> engine.aggregate_types[aggregate_type], db |-> db,
          engine |-> engine]
    ELSE LET row == insert_or_get_aggregate_type(db, aggregate_type) IN
         [id |-> row.id, db |-> row.db,
          engine |-> [engine EXCEPT !.aggregate_types[aggregate_type] = row.id]]

\* SqlxStorageEngine::get_event_type_id
get_event_type_id(db, engine, event_type) ==
    IF engine.event_types[event_type] # 0
    THEN [id |-> engine.event_types[event_type], db |-> db, engine |-> engine]
    ELSE LET row == insert_or_get_event_type(db, event_type) IN
         [id |-> row.id, db |-> row.db,
          engine |-> [engine EXCEPT !.event_types[event_type] = row.id]]

\* insert_event executed on the connection: the row is committed at once, or
\* refused by UNIQUE(aggregate_id, version)
insert_event(db, row) ==
    IF \E i \in 1..Len(db.events) :
          /\ db.events[i].aggregate_id = row.aggregate_id
          /\ db.events[i].version = row.version
    THEN [ok |-> FALSE, db |-> db]
    ELSE [ok |-> TRUE, db |-> [db EXCEPT !.events = Append(@, row)]]

\* insert_snapshot executed with the three values write_updates binds
\* (aggregate_id, aggregate_type_id, data) to its four placeholders: the
\* statement is refused
insert_snapshot(db, row) == [ok |-> FALSE, db |-> db]

RECURSIVE InsertEvents(_, _, _)
\* `for event in _events { .. }` of write_updates: the first error returns
InsertEvents(db, engine, events) ==
    IF events = <<>> THEN [ok |-> TRUE, db |-> db, engine |-> engine]
    ELSE LET event == Head(events)
             event_type == get_event_type_id(db, engine, event.event_type)
             aggregate_type == get_aggregate_type_id(event_type.db,
                                                     event_type.engine,
                                                     event.aggregate_type)
             inserted == insert_event(aggregate_type.db,
                            [aggregate_id |-> event.aggregate_id,
                             aggregate_type_id |-> aggregate_type.id,
                             event_type_id |-> event_type.id,
                             version |-> event.version, data |-> event.data,
                             metadata |-> event.metadata])
         IN IF inserted.ok
            THEN InsertEvents(inserted.db, aggregate_type.engine, Tail(events))
            ELSE [ok |-> FALSE, db |-> inserted.db,
                  engine |-> aggregate_type.engine]

RECURSIVE InsertSnapshots(_, _, _)
\* `for snapshot in _snapshots { .. }` of write_updates
InsertSnapshots(db, engine, snapshots) ==
    IF snapshots = <<>> THEN [ok |-> TRUE, db |-> db, engine |-> engine]
    ELSE LET snapshot == Head(snapshots)
             aggregate_type == get_aggregate_type_id(db, engine,
                                                     snapshot.aggregate_type)
             inserted == insert_snapshot(aggregate_type.db,
                            [aggregate_id |-> snapshot.aggregate_id,
                             aggregate_type_id |-> aggregate_type.id,
                             data |-> snapshot.data])
         IN IF inserted.ok
            THEN InsertSnapshots(inserted.db, aggregate_type.engine,
                                 Tail(snapshots))
            ELSE [ok |-> FALSE, db |-> inserted.db,
                  engine |-> aggregate_type.engine]

\* SqlxStorageEngine::write_updates: a connection of the pool, no transaction
sqlx_write_updates(db, engine, events, snapshots) ==
    LET written == InsertEvents(db, engine, events) IN
    IF ~written.ok THEN written
    ELSE InsertSnapshots(written.db, written.engine, snapshots)

\* what a write_updates call returned
WriteReturned(ok) ==
    [op |-> "write_updates", ok |-> ok, id |-> 0, aggregate_type |-> "",
     natural_key |-> ""]

\* batches of up to two events of aggregate 1, and of at most one snapshot; the
\* row of aggregate 1 in aggregate_instances exists
SqlEvent(aggregate_type, version) ==
    EventNew(1, aggregate_type, version, "credited",
             EncodeEvent("AccountCredited", version))

SqlEvents ==
    {<<>>}
    \cup {<<SqlEvent(t, v)>> : t \in EngineTypes, v \in 1..MaxVersion}
    \cup {<<SqlEvent(t, v), SqlEvent(t, w)>> :
             t \in EngineTypes, v \in 1..MaxVersion, w \in 1..MaxVersion}

SqlSnapshots ==
    {<<>>} \cup {<<SnapshotNew(1, AccountType, v, [balance |-> v])>> :
                    v \in 1..MaxVersion}

\* SqlxStorageEngine::write_updates called on engine e
SqlxWriteUpdates(e, events, snapshots) ==
    /\ engines[e].pc = "idle"
    /\ Len(database.events) + Len(events) <= MaxStored
    /\ LET written == sqlx_write_updates(database, engines[e], events,
                                         snapshots) IN
       /\ database' = written.db
       /\ engines' = [engines EXCEPT ![e] = written.engine]
       /\ result' = WriteReturned(written.ok)
    /\ UNCHANGED <<memory_store, captured_events, captured_snapshots, context,
                   commits, aggregates, snapshot_frequency, created, mutex, pc,
                   writing, observed, locals, locks>>

\* Two engine instances over one database are handed batches.
SqlxNext ==
    \E e \in Engines, events \in SqlEvents, snapshots \in SqlSnapshots :
        SqlxWriteUpdates(e, events, snapshots)

SqlxSpec == Init /\ [][SqlxNext]_vars

(***************************************************************************)
(* SqlxStorageEngine::get_aggregate_type_id step by step, on two engine    *)
(* instances over one database.                                            *)
(***************************************************************************)
\* `self.aggregate_types.lock().await` and the look in the cache: a hit returns
\* the id, a miss goes on to the database with the guard held
TypeIdCall(e, aggregate_type) ==
    /\ engines[e].pc = "idle"
    /\ engines' = [engines EXCEPT
                      ![e] = IF @.aggregate_types[aggregate_type] # 0
                             THEN [@ EXCEPT
                                     !.returned[aggregate_type] =
                                         @ \cup {engines[e].aggregate_types[aggregate_type]}]
                             ELSE [@ EXCEPT !.pc = "query",
                                            !.name = aggregate_type]]
    /\ UNCHANGED <<memory_store, captured_events, captured_snapshots, context,
                   commits, aggregates, snapshot_frequency, result, created,
                   mutex, pc, writing, observed, locals, locks, database>>

\* the insert_or_get_aggregate_type query and `let id: i64 = row.get(0)`
TypeIdQuery(e) ==
    /\ engines[e].pc = "query"
    /\ Len(database.aggregate_types) < MaxStored
    /\ LET row == insert_or_get_aggregate_type(database, engines[e].name) IN
       /\ database' = row.db
       /\ engines' = [engines EXCEPT ![e].pc = "insert", ![e].id = row.id]
    /\ UNCHANGED <<memory_store, captured_events, captured_snapshots, context,
                   commits, aggregates, snapshot_frequency, result, created,
                   mutex, pc, writing, observed, locals, locks>>

\* `aggregate_types.insert(aggregate_type.to_string(), id); Ok(id)`
TypeIdReturn(e) ==
    /\ engines[e].pc = "insert"
    /\ engines' = [engines EXCEPT
                      ![e] = [@ EXCEPT
                                !.aggregate_types[engines[e].name] = engines[e].id,
                                !.returned[engines[e].name] = @ \cup {engines[e].id},
                                !.pc = "idle", !.name = "", !.id = 0]]
    /\ UNCHANGED <<memory_store, captured_events, captured_snapshots, context,
                   commits, aggregates, snapshot_frequency, result, created,
                   mutex, pc, writing, observed, locals, locks, database>>

\* the engine is dropped and SqlxStorageEngine::new is called again over the
\* same database: the caches are empty
EngineRestart(e) ==
    /\ engines[e].pc = "idle"
    /\ engines[e].aggregate_types # EngineNew.aggregate_types
    /\ engines' = [engines EXCEPT
                      ![e] = [EngineNew EXCEPT !.returned = engines[e].returned]]
    /\ UNCHANGED <<memory_store, captured_events, captured_snapshots, context,
                   commits, aggregates, snapshot_frequency, result, created,
                   mutex, pc, writing, observed, locals, locks, database>>

\* Two engine instances over one database ask for the ids of types, and are
\* re-created.
TypeNext ==
    \/ \E e \in Engines, t \in EngineTypes : TypeIdCall(e, t)
    \/ \E e \in Engines : TypeIdQuery(e)
    \/ \E e \in Engines : TypeIdReturn(e)
    \/ \E e \in Engines : EngineRestart(e)

TypeSpec == Init /\ [][TypeNext]_vars

(***************************************************************************)
(* SqliteStorageEngine: the storage engine over a rusqlite connection.     *)
(***************************************************************************)
RECURSIVE OrderByVersion(_)
\* `ORDER BY version ASC`; rows of one version stay in insertion order
OrderByVersion(rows) ==
    IF rows = <<>> THEN <<>>
    ELSE LET least == CHOOSE i \in 1..Len(rows) :
                         \A j \in 1..Len(rows) :
                            \/ rows[i].version < rows[j].version
                            \/ rows[i].version = rows[j].version /\ i <= j
         IN <<rows[least]>>
            \o OrderByVersion(SubSeq(rows, 1, least - 1)
                              \o SubSeq(rows, least + 1, Len(rows)))

\* SqliteStorageEngine::get_events: `SELECT * FROM events WHERE aggregate_id =
\* ? AND aggregate_type = ? AND version >= ? ORDER BY version ASC`, each row
\* made an Event
sqlite_get_events(db, aggregate_id, aggregate_type, version) ==
    OrderByVersion(SelectSeq(db.events,
                             LAMBDA row : /\ row.aggregate_id = aggregate_id
                                          /\ row.aggregate_type = aggregate_type
                                          /\ row.version >= version))

\* SqliteStorageEngine::write_updates: one transaction. The INSERT into
\* snapshots gives no created_at, a NOT NULL column, so a batch with a snapshot
\* fails and the transaction is rolled back when it is dropped
sqlite_write_updates(db, events, snapshots) ==
    IF snapshots # <<>> THEN [ok |-> FALSE, db |-> db]
    ELSE [ok |-> TRUE,
          db |-> [db EXCEPT
                    !.events = @ \o [i \in 1..Len(events) |->
                                        [aggregate_id |-> events[i].aggregate_id,
                                         aggregate_type |-> events[i].aggregate_type,
                                         version |-> events[i].version,
                                         event_type |-> events[i].event_type,
                                         data |-> events[i].data]]]]

\* SqliteStorageEngine::write_updates, under the Mutex of the connection
SqliteWriteUpdates(events, snapshots) ==
    /\ Len(database.events) + Len(events) <= MaxStored
    /\ LET written == sqlite_write_updates(database, events, snapshots) IN
       /\ database' = written.db
       /\ result' = WriteReturned(written.ok)
    /\ UNCHANGED <<memory_store, captured_events, captured_snapshots, context,
                   commits, aggregates, snapshot_frequency, created, mutex, pc,
                   writing, observed, locals, locks, engines>>

\* SqliteStorageEngine::get_events, under the Mutex of the connection
SqliteGetEvents(aggregate_id, aggregate_type, version) ==
    /\ observed' = [op |-> "get_events", aggregate_id |-> aggregate_id,
                    aggregate_type |-> aggregate_type, version |-> version,
                    value |-> sqlite_get_events(database, aggregate_id,
                                                aggregate_type, version)]
    /\ UNCHANGED <<memory_store, captured_events, captured_snapshots, context,
                   commits, aggregates, snapshot_frequency, result, created,
                   mutex, pc, writing, locals, locks, database, engines>>

\* Batches are written to the rusqlite engine and its events are read.
SqliteNext ==
    \/ \E events \in LogEvents, snapshots \in LogSnapshots :
          SqliteWriteUpdates(events, snapshots)
    \/ \E p \in LogAggregates, version \in 0..MaxVersion :
          SqliteGetEvents(p[1], p[2], version)

SqliteSpec == Init /\ [][SqliteNext]_vars

(***************************************************************************)
(* Properties.                                                             *)
(***************************************************************************)
\* what the publish call of Request(a, command) returns in the current state
PublishOf(a, command) ==
    LET source == aggregates[a]
        requested == AccountRequest(source.state, command) IN
    publish(source, snapshot_frequency, context[source.context],
            captured_events[source.context], captured_snapshots[source.context],
            requested.event_type, requested.data)

Succeeds(a, command) == Request(a, command) /\ PublishOf(a, command).ok
Fails(a, command) == Request(a, command) /\ ~PublishOf(a, command).ok

\* a fresh aggregate of context c, created at version 0, every publish call of
\* which succeeded
FreshIn(a, c) ==
    /\ aggregates[a].live
    /\ aggregates[a].context = c
    /\ aggregates[a].origin = "new"
    /\ ~aggregates[a].failed

\* what a new context gets when it loads (id, aggregate_type) from store
Reload(store, id, aggregate_type) ==
    load(store, NewAggregateObject(id, aggregate_type, "c2", "loaded"))

SnapshotsOf(store, id, aggregate_type) ==
    {i \in 1..Len(store.snapshots) :
        /\ store.snapshots[i].aggregate_id = id
        /\ store.snapshots[i].aggregate_type = aggregate_type}

SameVersion(e, f) ==
    /\ e.aggregate_id = f.aggregate_id
    /\ e.aggregate_type = f.aggregate_type
    /\ e.version = f.version

\* C1: round trip. When a context commits for the first time, every fresh
\* aggregate of it that received N >= 1 publish calls, all successful, is
\* reloaded from the engine by a new context with exactly the version and the
\* domain state it had in memory just before the commit, whatever the
\* snapshot frequency.
C1_RoundTrip ==
    [][\A c \in Contexts : \A a \in Aggregates :
          (Commit(c) /\ commits[c] = 0 /\ FreshIn(a, c)
              /\ aggregates[a].version >= 1)
          => LET reloaded == Reload(memory_store', aggregates[a].id,
                                    aggregates[a].aggregate_type) IN
             /\ reloaded.ok
             /\ reloaded.agg.version = aggregates[a].version
             /\ reloaded.agg.state = aggregates[a].state]_vars

\* a committed fresh aggregate with a snapshot and trailing events, loaded by
\* the other context with the same version and state
C1_Witness ==
    /\ FreshIn("a1", "c1") /\ commits["c1"] = 1
    /\ aggregates["a2"].live /\ aggregates["a2"].origin = "loaded"
    /\ aggregates["a2"].id = aggregates["a1"].id
    /\ aggregates["a1"].version = 2
    /\ aggregates["a2"].version = 2
    /\ aggregates["a2"].state = aggregates["a1"].state
    /\ aggregates["a1"].state.balance = 0
    /\ snapshot_frequency = 2
    /\ Len(memory_store.snapshots) = 1
    /\ memory_store.events = captured_events["c1"]

\* C2: optimistic conflict detection. A context that commits for the first
\* time a batch holding an event whose (aggregate_id, aggregate_type, version)
\* another context has already stored is rejected and persists nothing.
C2_SecondCommitRejected ==
    [][\A c \in Contexts :
          (/\ Commit(c)
           /\ commits[c] = 0
           /\ \E i \in 1..Len(captured_events[c]) :
                 \E j \in 1..Len(memory_store.events) :
                    SameVersion(captured_events[c][i], memory_store.events[j]))
          => /\ memory_store' = memory_store
             /\ commits'[c] = 0]_vars

\* C3: a publish call whose apply_event fails leaves the aggregate's version
\* and state and the context's two buffers as they were.
C3_FailedPublishChangesNothing ==
    [][\A a \in Aggregates : \A command \in Commands :
          Fails(a, command)
          => /\ aggregates'[a].version = aggregates[a].version
             /\ aggregates'[a].state = aggregates[a].state
             /\ captured_events' = captured_events
             /\ captured_snapshots' = captured_snapshots]_vars

\* C4: with snapshot_frequency F > 0, a fresh aggregate that received exactly
\* k*F publish calls, all successful, has exactly k snapshots in the engine
\* once its context has committed.
C4_SnapshotCount ==
    [][\A c \in Contexts : \A a \in Aggregates :
          (/\ Commit(c) /\ commits[c] = 0 /\ FreshIn(a, c)
           /\ snapshot_frequency > 0
           /\ aggregates[a].version % snapshot_frequency = 0)
          => Cardinality(SnapshotsOf(memory_store', aggregates[a].id,
                                     aggregates[a].aggregate_type))
             = aggregates[a].version \div snapshot_frequency]_vars

\* 2*F publish calls with F = 1, committed, and two snapshots stored
C4_Witness ==
    /\ FreshIn("a1", "c1") /\ commits["c1"] = 1
    /\ snapshot_frequency = 1
    /\ aggregates["a1"].version = 2
    /\ memory_store.events = captured_events["c1"]
    /\ Len(memory_store.events) = 2
    /\ Cardinality(SnapshotsOf(memory_store, aggregates["a1"].id,
                               AccountType)) = 2

\* C5: natural-key allocation is idempotent. Every create_aggregate_instance
\* call with a natural key returns the identifier that the first call with that
\* aggregate type and that key returned.
C5_SameKeySameId ==
    (result.op = "create_aggregate_instance" /\ result.natural_key # NoKey)
    => result.id = created[<<result.aggregate_type, result.natural_key>>]

\* C6: the natural-key mapping is fixed. Once create_aggregate_instance(type,
\* key) has returned id, every later get_aggregate_instance_id(type, key)
\* returns that id.
C6_MappingFixed ==
    (/\ result.op = "get_aggregate_instance_id"
     /\ created[<<result.aggregate_type, result.natural_key>>] # 0)
    => result.id = created[<<result.aggregate_type, result.natural_key>>]

\* C7: natural keys are scoped by aggregate type. get_aggregate_instance_id(
\* type, key) finds an identifier only if create_aggregate_instance was called
\* earlier with that same type and that same key.
C7_ScopedByType ==
    (result.op = "get_aggregate_instance_id" /\ result.id # 0)
    => created[<<result.aggregate_type, result.natural_key>>] # 0

\* C8: a successful publish call on an aggregate at version v appends exactly
\* one event, of version v+1, to the context's buffer, folds that event into
\* the aggregate's state exactly once and leaves the aggregate at version v+1;
\* the storage engine takes no part in it.
C8_PublishBuffersNextVersion ==
    [][\A a \in Aggregates : \A command \in Commands :
          Succeeds(a, command)
          => LET c == aggregates[a].context
                 buffered == captured_events'[c]
                 event == buffered[Len(buffered)] IN
             /\ Len(buffered) = Len(captured_events[c]) + 1
             /\ SubSeq(buffered, 1, Len(captured_events[c])) = captured_events[c]
             /\ event.version = aggregates[a].version + 1
             /\ event.aggregate_id = aggregates[a].id
             /\ event.aggregate_type = aggregates[a].aggregate_type
             /\ aggregates'[a].version = aggregates[a].version + 1
             /\ aggregates'[a].state
                   = AccountApplyEvent(aggregates[a].state, event).state
             /\ memory_store' = memory_store]_vars

\* an aggregate two successful publish calls after its creation, with both
\* events in its context's buffer
C8_Witness ==
    /\ FreshIn("a1", "c1")
    /\ aggregates["a1"].version = 2
    /\ aggregates["a1"].state.balance = 2
    /\ Len(captured_events["c1"]) = 2
    /\ captured_events["c1"][2].version = 2
    /\ memory_store.events = <<>>

C10_AbandonLeavesEngineUntouched ==
    [][(\E c \in Contexts : Commit(c)) \/ memory_store' = memory_store]_vars

\* C10: whatever is done through a context short of a commit, the events and
\* snapshots stored in the engine stay exactly as they were; only the
\* identities allocated by creating aggregates (the id counter and the
\* natural-key map) change.
C10_AbandonLeavesLogUntouched ==
    [][(\E c \in Contexts : Commit(c))
       \/ /\ memory_store'.events = memory_store.events
          /\ memory_store'.snapshots = memory_store.snapshots]_vars

\* context c2 abandoned with the aggregate it created under a natural key,
\* after the commit of c1: the log holds what c1 wrote, and the identity that
\* c2 allocated stays
C10_Witness ==
    /\ commits["c1"] = 1
    /\ aggregates["a1"].live /\ aggregates["a1"].id = 1
    /\ ~aggregates["a2"].live
    /\ captured_events["c2"] = <<>>
    /\ context["c2"] = EmptyMetadata
    /\ memory_store.id = 2
    /\ memory_store.natural_key_map["chavez_account"] = 2
    /\ memory_store.events # <<>>
    /\ memory_store.events = captured_events["c1"]

\* the store as it was when the write_updates call in flight began, and as it
\* is once the call has returned
BeforeWrite ==
    [memory_store EXCEPT
        !.events = SubSeq(@, 1, Len(@) - (IF writing.pushed < Len(writing.events)
                                          THEN writing.pushed
                                          ELSE Len(writing.events))),
        !.snapshots = SubSeq(@, 1, Len(@)
                                   - (IF writing.pushed < Len(writing.events)
                                      THEN 0
                                      ELSE writing.pushed - Len(writing.events)))]

AfterWrite == write_updates(BeforeWrite, writing.events, writing.snapshots).store

WriteInFlight == \E c \in Contexts : pc[c] \in {"lock", "push"}

\* C11: write_updates is all-or-nothing for concurrent readers. A read_events
\* or read_snapshot call that runs while a write_updates call is in flight
\* returns what it would return on the store without any of the batch or on
\* the store with the whole batch, never on a store holding a part of it.
C11_WriteUpdatesAllOrNothing ==
    [][/\ \A version \in 0..1 :
             (ReadEvents(1, AccountType, version) /\ WriteInFlight)
             => \/ /\ memory_store = BeforeWrite
                   /\ observed'.value
                         = read_events(BeforeWrite, 1, AccountType, version)
                \/ /\ memory_store = AfterWrite
                   /\ observed'.value
                         = read_events(AfterWrite, 1, AccountType, version)
       /\ (ReadSnapshot(1, AccountType) /\ WriteInFlight)
             => \/ /\ memory_store = BeforeWrite
                   /\ observed'.value
                         = read_snapshot(BeforeWrite, 1, AccountType)
                \/ /\ memory_store = AfterWrite
                   /\ observed'.value
                         = read_snapshot(AfterWrite, 1, AccountType)]_vars

\* a reader that read the events while the write_updates call was waiting for
\* the lock and saw none of the batch, with the writer now in the middle of a
\* batch of two events and a snapshot
C11_Witness ==
    /\ pc["c1"] = "push" /\ mutex = "c1"
    /\ Len(writing.events) = 2 /\ Len(writing.snapshots) >= 1
    /\ writing.pushed = 1
    /\ observed.op = "read_events" /\ observed.concurrent
    /\ observed.value = <<>>

\* C12: when the domain's request function refuses a command,
\* ComposedAggregate::request returns the error with nothing published: the
\* aggregate keeps its version and state and the buffers of every context stay
\* as they were.
C12_RefusedRequestPublishesNothing ==
    [][\A a \in Aggregates : \A command \in RefusedCommands :
          Request(a, command)
          => /\ ~request(aggregates[a], snapshot_frequency,
                         context[aggregates[a].context],
                         captured_events[aggregates[a].context],
                         captured_snapshots[aggregates[a].context], command).ok
             /\ aggregates'[a].rejected
             /\ aggregates'[a].version = aggregates[a].version
             /\ aggregates'[a].state = aggregates[a].state
             /\ captured_events' = captured_events
             /\ captured_snapshots' = captured_snapshots
             /\ memory_store' = memory_store]_vars

\* an aggregate that had a command refused and a command published, with a
\* snapshot frequency under which every publish call buffers a snapshot
C12_Witness ==
    /\ aggregates["a1"].live /\ aggregates["a1"].rejected
    /\ ~aggregates["a1"].failed
    /\ snapshot_frequency = 1
    /\ aggregates["a1"].version = 1
    /\ Len(captured_events["c1"]) = 1
    /\ Len(captured_snapshots["c1"]) = 1

\* the events and snapshots of store that belong to an aggregate of context c
StoredOf(store, c) ==
    {i \in 1..Len(store.events) :
        \E a \in Aggregates : /\ aggregates[a].live /\ aggregates[a].context = c
                              /\ store.events[i].aggregate_id = aggregates[a].id}
    \cup
    {i \in 1..Len(store.snapshots) :
        \E a \in Aggregates : /\ aggregates[a].live /\ aggregates[a].context = c
                              /\ store.snapshots[i].aggregate_id = aggregates[a].id}

\* C13: with_context commits if and only if the task returned Ok. When the
\* task returns an error, with_context returns an error, no write reaches the
\* engine and the engine holds none of the events the task published; when
\* the task returns Ok, the context's buffers are written by exactly one
\* commit, after the task.
C13_WithContextCommitsOnSuccessOnly ==
    [][\A c \in Contexts : \A task_ok \in BOOLEAN :
          WithContextReturn(c, task_ok)
          => /\ commits[c] = 0
             /\ StoredOf(memory_store, c) = {}
             /\ IF task_ok
                THEN /\ commits'[c] = 1
                     /\ pc'[c] = "returned_ok"
                     /\ memory_store'.events
                           = memory_store.events \o captured_events[c]
                     /\ memory_store'.snapshots
                           = memory_store.snapshots \o captured_snapshots[c]
                ELSE /\ commits'[c] = 0
                     /\ pc'[c] = "returned_err"
                     /\ memory_store' = memory_store
                     /\ StoredOf(memory_store', c) = {}]_vars

\* with_context returned the error of a task that had published two events:
\* the identity is allocated and the log is empty
C13_Witness ==
    /\ pc["c1"] = "returned_err"
    /\ commits["c1"] = 0
    /\ Len(captured_events["c1"]) = 2
    /\ captured_snapshots["c1"] # <<>>
    /\ memory_store.id = 1
    /\ memory_store.events = <<>> /\ memory_store.snapshots = <<>>

\* the event that a successful publish call has just put in the buffer of c
LastBuffered(c) == captured_events'[c][Len(captured_events'[c])]

\* C14: metadata is copied at publish time. The metadata of a published event
\* is the context's map as it is at the publish call, and an add_metadata call
\* (a new key or an overwritten one) changes the context's map only: every
\* event already in a buffer keeps the metadata it was published with.
C14_MetadataCopiedAtPublish ==
    [][/\ \A a \in Aggregates : \A command \in Commands :
             (Succeeds(a, command)
              /\ context[aggregates[a].context] # EmptyMetadata)
             => DecodeMetadata(LastBuffered(aggregates[a].context).metadata)
                   = Some(context[aggregates[a].context])
       /\ \A c \in Contexts : \A k \in MetaKeys : \A v \in MetaValues :
             AddMetadata(c, k, v)
             => /\ context'[c][k] = v
                /\ \A other \in MetaKeys \ {k} : context'[c][other] = context[c][other]
                /\ captured_events' = captured_events
                /\ captured_snapshots' = captured_snapshots]_vars

\* an event published with {user: chavez} sits in the buffer while the
\* context's map has since had "user" overwritten and "ip_address" added
C14_Witness ==
    /\ Len(captured_events["c1"]) = 1
    /\ DecodeMetadata(captured_events["c1"][1].metadata)
          = Some([k \in MetaKeys |-> IF k = "user" THEN "chavez" ELSE NoValue])
    /\ context["c1"] = [k \in MetaKeys |-> IF k = "user" THEN "roger" ELSE "chavez"]

\* C15: an event carries metadata if and only if the context's map was
\* non-empty when it was published. Every event published after add_metadata
\* calls decodes to a map holding each key added so far with its value, an
\* event published through a context that never had add_metadata called has
\* metadata None, and a commit stores the events with that metadata.
C15_MetadataIffMapNonEmpty ==
    [][/\ \A a \in Aggregates : \A command \in Commands :
             Succeeds(a, command)
             => LET c == aggregates[a].context
                    decoded == DecodeMetadata(LastBuffered(c).metadata) IN
                /\ (LastBuffered(c).metadata = None) <=> (context[c] = EmptyMetadata)
                /\ \A k \in MetaKeys :
                      context[c][k] # NoValue
                      => decoded # None /\ decoded[1][k] = context[c][k]
       /\ \A c \in Contexts :
             Commit(c)
             => \A i \in 1..Len(captured_events[c]) :
                   memory_store'.events[Len(memory_store.events) + i].metadata
                      = captured_events[c][i].metadata]_vars

\* a committed log of two events: the first published before any add_metadata
\* call, without metadata, the second published after both keys were added
C15_Witness ==
    /\ commits["c1"] = 1
    /\ Len(memory_store.events) = 2
    /\ memory_store.events[1].metadata = None
    /\ DecodeMetadata(memory_store.events[2].metadata)
          = Some([k \in MetaKeys |-> IF k = "user" THEN "chavez" ELSE "roger"])

\* the engine holds neither a snapshot nor an event for (id, aggregate_type)
NothingStored(store, id, aggregate_type) ==
    /\ SnapshotsOf(store, id, aggregate_type) = {}
    /\ \A i \in 1..Len(store.events) :
          ~(/\ store.events[i].aggregate_id = id
            /\ store.events[i].aggregate_type = aggregate_type)

\* C16: load fails with AggregateNotFound when the engine holds neither a
\* snapshot nor an event for the aggregate's (id, type), whether or not the
\* identity was allocated, and the aggregate passed to load keeps version 0
\* and its default state.
C16_LoadNotFound ==
    [][\A c \in Contexts : \A a \in Aggregates : \A id \in 1..MaxId :
          (ContextLoad(c, a, id) /\ NothingStored(memory_store, id, AccountType))
          => /\ aggregates'[a].origin = "AggregateNotFound"
             /\ aggregates'[a].id = id
             /\ aggregates'[a].version = 0
             /\ aggregates'[a].state = DefaultState]_vars

\* load of identity 1 failed with AggregateNotFound while the identity is
\* allocated and its events are published but not committed
C16_Witness ==
    /\ aggregates["a2"].live /\ aggregates["a2"].origin = "AggregateNotFound"
    /\ aggregates["a2"].id = 1 /\ aggregates["a2"].version = 0
    /\ aggregates["a1"].live /\ aggregates["a1"].id = 1
    /\ captured_events["c1"] # <<>>
    /\ memory_store.id = 1
    /\ memory_store.events = <<>> /\ memory_store.snapshots = <<>>

\* the events of store that read_events(id, aggregate_type, version) is to
\* return
MatchingEvents(store, id, aggregate_type, version) ==
    {i \in 1..Len(store.events) :
        /\ store.events[i].aggregate_id = id
        /\ store.events[i].aggregate_type = aggregate_type
        /\ store.events[i].version > version}

\* C17: read_snapshot(id, type) returns the stored snapshot of (id, type) with
\* the highest version, whatever the order in which the batches were written,
\* and None when no snapshot of (id, type) is stored.
C17_ReadSnapshotHighestVersion ==
    [][\A p \in LogAggregates :
          ReadSnapshot(p[1], p[2])
          => LET stored == SnapshotsOf(memory_store, p[1], p[2]) IN
             IF stored = {} THEN observed'.value = None
             ELSE /\ observed'.value # None
                  /\ \E i \in stored : observed'.value[1] = memory_store.snapshots[i]
                  /\ \A i \in stored :
                        memory_store.snapshots[i].version
                           <= observed'.value[1].version]_vars

\* C18: read_events(id, type, v) returns exactly the stored events of (id,
\* type) with a version above v, with their fields as written, in ascending
\* version order whatever the order in which the batches were written.
C18_ReadEventsAscending ==
    [][\A p \in LogAggregates : \A version \in 0..MaxVersion :
          ReadEvents(p[1], p[2], version)
          => LET stored == MatchingEvents(memory_store, p[1], p[2], version)
                 returned == observed'.value IN
             /\ Len(returned) = Cardinality(stored)
             /\ \A i \in stored : \E j \in 1..Len(returned) :
                   returned[j] = memory_store.events[i]
             /\ \A j \in 1..Len(returned) : \E i \in stored :
                   returned[j] = memory_store.events[i]
             /\ \A j \in 1..(Len(returned) - 1) :
                   returned[j].version <= returned[j + 1].version]_vars

\* C19: snapshot cadence. A publish call, successful or not, buffers a
\* snapshot exactly when snapshot_frequency is positive and the new version is
\* a multiple of it; with a frequency of 0 or below no publish call ever
\* buffers one.
C19_SnapshotCadence ==
    [][\A a \in Aggregates : \A command \in Commands :
          Request(a, command)
          => LET c == aggregates[a].context
                 new_version == aggregates[a].version + 1 IN
             /\ \A other \in Contexts \ {c} :
                   captured_snapshots'[other] = captured_snapshots[other]
             /\ IF snapshot_frequency > 0 /\ new_version % snapshot_frequency = 0
                THEN /\ Len(captured_snapshots'[c])
                           = Len(captured_snapshots[c]) + 1
                     /\ SubSeq(captured_snapshots'[c], 1,
                               Len(captured_snapshots[c])) = captured_snapshots[c]
                     /\ captured_snapshots'[c][Len(captured_snapshots'[c])]
                           .aggregate_id = aggregates[a].id
                ELSE captured_snapshots'[c] = captured_snapshots[c]]_vars

\* frequency 2: two publish calls, and one snapshot buffered, by the second
C19_Witness ==
    /\ snapshot_frequency = 2
    /\ FreshIn("a1", "c1")
    /\ aggregates["a1"].version = 2
    /\ Len(captured_events["c1"]) = 2
    /\ Len(captured_snapshots["c1"]) = 1
    /\ captured_snapshots["c1"][1].version = 1
    /\ commits["c1"] = 0

\* C20: with snapshot_frequency 10, after 100 credits of 100 to one fresh
\* aggregate and a commit, the engine holds exactly 10 snapshots and a reload
\* gives balance 10,000 at version 100 from one snapshot and at most 9
\* trailing events.
C20_HundredCredits ==
    (/\ commits["c1"] = 1 /\ FreshIn("a1", "c1")
     /\ aggregates["a1"].version = ScenarioEvents)
    => LET id == aggregates["a1"].id
           reloaded == Reload(memory_store, id, AccountType) IN
       /\ Len(memory_store.events) = 100
       /\ Len(memory_store.snapshots) = 10
       /\ Cardinality(SnapshotsOf(memory_store, id, AccountType)) = 10
       /\ read_snapshot(memory_store, id, AccountType) # None
       /\ reloaded.ok
       /\ reloaded.applied <= 9
       /\ reloaded.agg.version = 100
       /\ reloaded.agg.state.balance = 10000
       /\ aggregates["a1"].state.balance = 10000

\* the second context has loaded the account after the commit of the 100
\* credits
C20_Witness ==
    /\ commits["c1"] = 1
    /\ Len(captured_events["c1"]) = ScenarioEvents
    /\ Len(memory_store.snapshots) = 10
    /\ aggregates["a2"].live /\ aggregates["a2"].origin = "loaded"
    /\ aggregates["a2"].id = aggregates["a1"].id
    /\ aggregates["a2"].version = 100
    /\ aggregates["a2"].state.balance = 10000

\* the events of aggregate id in a buffer, up to and above a version
EventsUpTo(events, id, version) ==
    SelectSeq(events, LAMBDA e : e.aggregate_id = id /\ e.version <= version)

EventsAbove(events, id, version) ==
    SelectSeq(events, LAMBDA e : e.aggregate_id = id /\ e.version > version)

\* the state reached by folding events into state
Fold(agg, state, events) ==
    ApplyEvents([agg EXCEPT !.state = state], events).agg.state

\* every buffered snapshot of aggregate object agg is the fold of the events
\* up to its version, and replays to the state agg has with the events above
SnapshotsConsistent(agg, events, snapshots) ==
    \A i \in 1..Len(snapshots) :
        snapshots[i].aggregate_id = agg.id
        => LET decoded == DecodeState(snapshots[i].data) IN
           /\ decoded.ok
           /\ snapshots[i].version >= agg.entered.version
           /\ snapshots[i].version <= agg.version
           /\ decoded.state
                 = Fold(agg, agg.entered.state,
                        EventsUpTo(events, agg.id, snapshots[i].version))
           /\ agg.state
                 = Fold(agg, decoded.state,
                        EventsAbove(events, agg.id, snapshots[i].version))

\* C21: every snapshot captured by publish is self-consistent. It carries the
\* version and the state the aggregate has when the publish call begins, its
\* state is the fold of exactly the aggregate's events with a version up to
\* the snapshot's, and the snapshot followed by the events above its version
\* replays to the aggregate's current state.
C21_SnapshotSelfConsistent ==
    [][/\ \A a \in Aggregates : \A command \in Commands :
             (/\ Request(a, command)
              /\ SnapshotDue(snapshot_frequency, aggregates[a].version + 1))
             => LET taken == captured_snapshots'[aggregates[a].context] IN
                /\ taken[Len(taken)].version = aggregates[a].version
                /\ taken[Len(taken)].aggregate_id = aggregates[a].id
                /\ DecodeState(taken[Len(taken)].data).state = aggregates[a].state
       /\ \A a \in Aggregates :
             aggregates'[a].live
             => SnapshotsConsistent(aggregates'[a],
                                    captured_events'[aggregates'[a].context],
                                    captured_snapshots'[aggregates'[a].context])]_vars

\* an aggregate loaded at version 1 that published once with frequency 1: the
\* snapshot of version 1 and balance 1 sits in its context's buffer beside the
\* event of version 2
C21_Witness ==
    /\ snapshot_frequency = 1
    /\ aggregates["a2"].live /\ aggregates["a2"].origin = "loaded"
    /\ aggregates["a2"].entered.version = 1
    /\ aggregates["a2"].version = 2
    /\ ~aggregates["a2"].failed
    /\ Len(captured_snapshots["c2"]) = 1
    /\ captured_snapshots["c2"][1].version = 1
    /\ DecodeState(captured_snapshots["c2"][1].data).state.balance = 1
    /\ Len(captured_events["c2"]) = 1

\* C22: exactly-once replay. A load that succeeds applies, after the snapshot
\* it read (version s, or 0 without one), every stored event of (id, type)
\* with a version above s exactly once, in strictly ascending version order,
\* and no event with a version up to s.
C22_ExactlyOnceReplay ==
    [][\A c \in Contexts : \A a \in Aggregates : \A id \in 1..MaxId :
          (ContextLoad(c, a, id) /\ aggregates'[a].origin = "loaded")
          => LET fresh == NewAggregateObject(id, AccountType, c, "loaded")
                 snapshot == read_snapshot(memory_store, id, AccountType)
                 s == IF snapshot = None THEN 0 ELSE snapshot[1].version
                 replayed == Replayed(memory_store, fresh) IN
             /\ Len(replayed)
                   = Cardinality(MatchingEvents(memory_store, id, AccountType, s))
             /\ \A j \in 1..Len(replayed) : replayed[j].version > s
             /\ \A j \in 1..(Len(replayed) - 1) :
                   replayed[j].version < replayed[j + 1].version]_vars

\* C25: when apply_snapshot cannot decode the snapshot that load read, load
\* returns the error, no event is applied, and the aggregate keeps the version
\* and the state it had before load.
C25_FailedSnapshotChangesNothing ==
    [][\A c \in Contexts : \A a \in Aggregates : \A id \in 1..MaxId :
          (/\ ContextLoad(c, a, id)
           /\ read_snapshot(memory_store, id, AccountType) # None
           /\ ~DecodeState(read_snapshot(memory_store, id, AccountType)[1].data).ok)
          => /\ aggregates'[a].origin = "SnapshotDeserializationError"
             /\ aggregates'[a].state = DefaultState
             /\ aggregates'[a].version = 0]_vars

\* C23: when write_updates fails, commit returns the error after that single
\* write_updates call, the context's buffers still hold the whole batch, and
\* the aggregates keep the versions and states their publish calls produced.
C23_FailedCommitKeepsBatch ==
    [][\A c \in Contexts :
          CommitEngine(c, FALSE)
          => /\ result'.op = "commit" /\ ~result'.ok
             /\ result'.attempts = 1
             /\ commits' = commits
             /\ captured_events' = captured_events
             /\ captured_snapshots' = captured_snapshots
             /\ aggregates' = aggregates]_vars

\* a commit of two events and a snapshot has just failed: the buffers hold
\* the batch, the aggregate is at version 2, and nothing is stored
C23_Witness ==
    /\ result.op = "commit" /\ ~result.ok
    /\ commits["c1"] = 0
    /\ Len(captured_events["c1"]) = 2
    /\ captured_snapshots["c1"] # <<>>
    /\ aggregates["a1"].live /\ aggregates["a1"].version = 2
    /\ memory_store.events = <<>>

\* the aggregate objects of context c
AggregatesIn(c) == {a \in Aggregates : aggregates[a].live /\ aggregates[a].context = c}

\* the events of aggregate id in a buffer, in buffer order
EventsOf(events, id) == SelectSeq(events, LAMBDA e : e.aggregate_id = id)

\* C24: concurrent publish calls on different aggregates of one context lose
\* nothing. Whatever the interleaving, the context's event buffer holds
\* exactly one event for each publish call that returned Ok, and the events of
\* each aggregate are in the buffer in the order the aggregate published them.
C24_ConcurrentPublishLosesNothing ==
    \A c \in Contexts :
        /\ Len(captured_events[c])
              = Cardinality({<<a, i>> \in Aggregates \X (1..MaxVersion) :
                                a \in AggregatesIn(c) /\ i <= locals[a].published})
        /\ \A a \in AggregatesIn(c) :
              LET own == EventsOf(captured_events[c], aggregates[a].id) IN
              /\ Len(own) = locals[a].published
              /\ \A j \in 1..(Len(own) - 1) : own[j].version < own[j + 1].version

\* events of the two aggregates interleaved in the buffer of c1, while the
\* thread of a1 waits for the context's Mutex that the thread of a2 holds
C24_Witness ==
    /\ AggregatesIn("c1") = Aggregates
    /\ Len(captured_events["c1"]) = 2
    /\ captured_events["c1"][1].aggregate_id = aggregates["a1"].id
    /\ captured_events["c1"][2].aggregate_id = aggregates["a2"].id
    /\ locals["a1"].pc = "lock" /\ locals["a1"].published = 1
    /\ locals["a2"].pc = "store" /\ locals["a2"].published = 1
    /\ locks["c1"].context = "a2" /\ locks["c1"].captured_events = "a2"

\* the batch has event e
InBatch(events, e) == \E j \in 1..Len(events) : events[j] = e

\* C29: the batch that a commit running next to publish calls hands to
\* write_updates is consistent. For every snapshot of the batch, of version v,
\* every event of that aggregate with a version up to v that was published
\* through the context is in the batch too.
C29_ConcurrentCommitBatchConsistent ==
    \A c \in Contexts :
        pc[c] = "write" =>
            \A i \in 1..Len(writing.snapshots) :
                \A j \in 1..Len(captured_events[c]) :
                    LET snapshot == writing.snapshots[i]
                        event == captured_events[c][j] IN
                    (/\ event.aggregate_id = snapshot.aggregate_id
                     /\ event.aggregate_type = snapshot.aggregate_type
                     /\ event.version <= snapshot.version)
                        => InBatch(writing.events, event)

\* C26: a publish that fails before the apply step (the payload, the metadata
\* or the snapshot cannot be encoded) buffers nothing and leaves the source
\* untouched: the event buffer, the snapshot buffer, the version and the state
\* of the aggregate are what they were before the call.
C26_EarlyFailureChangesNothing ==
    [][\A command \in Commands, fault \in Faults :
          (/\ PublishFault("a1", command, fault)
           /\ ~result'.ok
           /\ result'.stage \in {"payload", "metadata", "snapshot"})
             => /\ UNCHANGED <<captured_events, captured_snapshots>>
                /\ aggregates'["a1"].version = aggregates["a1"].version
                /\ aggregates'["a1"].state = aggregates["a1"].state]_vars

\* take_snapshot failed in the publish of event 2 of an account whose event 1
\* and metadata are in place
C26_Witness ==
    /\ result.op = "publish" /\ ~result.ok /\ result.stage = "snapshot"
    /\ snapshot_frequency = 2
    /\ context["c1"]["user"] # NoValue
    /\ Len(captured_events["c1"]) = 1
    /\ captured_snapshots["c1"] = <<>>
    /\ aggregates["a1"].version = 1

\* every identity returned so far, as <<thread, position>> -> id
Allocated == {<<a, i>> \in Aggregates \X (1..MaxStored + 1) :
                 i <= Len(IdsOf(locals[a]))}

\* C27: the identities create_aggregate_instance returns without a natural key
\* are positive and pairwise distinct, whatever the threads and the types of
\* the calls, and the first one a fresh engine returns is 1.
C27_IdsPositiveAndDistinct ==
    /\ \A p \in Allocated : IdsOf(locals[p[1]])[p[2]].id > 0
    /\ \A p, q \in Allocated :
          p # q => IdsOf(locals[p[1]])[p[2]].id # IdsOf(locals[q[1]])[q[2]].id
    /\ Allocated # {} => \E p \in Allocated : IdsOf(locals[p[1]])[p[2]].id = 1

\* both threads were given identities, of different types, and the thread of
\* a1 holds the Mutex in the third call the engine serves
C27_Witness ==
    /\ IdsOf(locals["a1"]) = <<[id |-> 1, aggregate_type |-> "account"]>>
    /\ IdsOf(locals["a2"]) = <<[id |-> 2, aggregate_type |-> "user"]>>
    /\ locals["a1"].pc = "read"
    /\ locals["a2"].pc = "idle"
    /\ mutex = "a1"
    /\ memory_store.id = 3

\* C28: each published event is written to storage at most once. A commit of
\* a context that has committed before appends to the log no event and no
\* snapshot that the log already holds.
C28_CommitWritesEachEventOnce ==
    [][\A c \in Contexts :
          (Commit(c) /\ commits[c] > 0)
          => /\ \A j \in (Len(memory_store.events) + 1)..Len(memory_store'.events) :
                   ~InBatch(memory_store.events, memory_store'.events[j])
             /\ \A j \in (Len(memory_store.snapshots) + 1)
                              ..Len(memory_store'.snapshots) :
                   ~InBatch(memory_store.snapshots, memory_store'.snapshots[j])]_vars

\* C30: the events a context buffers for one aggregate object have contiguous
\* versions. An aggregate that entered its context at version v0 and has k
\* events in the buffer has there the versions v0+1, ..., v0+k in buffer
\* order, and its current version is v0+k.
C30_BufferedVersionsContiguous ==
    \A a \in Aggregates :
        aggregates[a].live =>
            LET own == EventsOf(captured_events[aggregates[a].context],
                                aggregates[a].id)
                v0 == aggregates[a].entered.version IN
            /\ \A i \in 1..Len(own) : own[i].version = v0 + i
            /\ aggregates[a].version = v0 + Len(own)

\* the highest version the engine holds for (id, aggregate_type), 0 if none
LatestStored(store, id, aggregate_type) ==
    LET versions == {store.events[i].version :
                        i \in {j \in 1..Len(store.events) :
                                  /\ store.events[j].aggregate_id = id
                                  /\ store.events[j].aggregate_type = aggregate_type}}
    IN IF versions = {} THEN 0
       ELSE CHOOSE v \in versions : \A w \in versions : w <= v

\* C31: load answers AggregateNotFound only when the engine holds neither a
\* snapshot nor an event for the aggregate's (id, type); a load on an aggregate
\* that is already at the latest stored version succeeds and leaves its state
\* and version as they were.
C31_NotFoundOnlyWhenNothingStored ==
    [][\A a \in Aggregates :
          LoadAgain(a)
          => /\ result'.error = "AggregateNotFound"
                  => NothingStored(memory_store, aggregates[a].id,
                                   aggregates[a].aggregate_type)
             /\ (/\ ~NothingStored(memory_store, aggregates[a].id,
                                    aggregates[a].aggregate_type)
                 /\ aggregates[a].version
                       = LatestStored(memory_store, aggregates[a].id,
                                      aggregates[a].aggregate_type))
                  => /\ result'.ok
                     /\ aggregates'[a].version = aggregates[a].version
                     /\ aggregates'[a].state = aggregates[a].state]_vars

\* C32: replay is bounded by the snapshot cadence. With snapshot_frequency
\* F > 0, a fresh aggregate whose n >= F publish calls all succeeded and were
\* committed by one context is loaded from one snapshot and at most F events.
C32_ReplayBoundedByCadence ==
    [][\A c \in Contexts : \A a \in Aggregates :
          (/\ Commit(c) /\ commits[c] = 0 /\ FreshIn(a, c)
           /\ snapshot_frequency > 0
           /\ aggregates[a].version >= snapshot_frequency)
          => LET reloaded == Reload(memory_store', aggregates[a].id,
                                    aggregates[a].aggregate_type) IN
             /\ reloaded.ok
             /\ read_snapshot(memory_store', aggregates[a].id,
                              aggregates[a].aggregate_type) # None
             /\ reloaded.applied <= snapshot_frequency]_vars

\* frequency 1 and two events committed with two snapshots: a load starts from
\* the snapshot of version 1 and applies one event
C32_Witness ==
    /\ FreshIn("a1", "c1") /\ commits["c1"] = 1
    /\ snapshot_frequency = 1
    /\ aggregates["a1"].version = 2
    /\ Len(memory_store.snapshots) = 2
    /\ read_snapshot(memory_store, aggregates["a1"].id, AccountType)[1].version = 1
    /\ Reload(memory_store, aggregates["a1"].id, AccountType).applied = 1
    /\ Reload(memory_store, aggregates["a1"].id, AccountType).agg.version = 2

SnapshotsFor(snapshots, id) == SelectSeq(snapshots, LAMBDA p : p.aggregate_id = id)

\* C34: publishing on one aggregate leaves every other aggregate of the
\* context alone: their versions and states, the events and the snapshots
\* buffered for them, and the metadata map of the context are unchanged.
C34_PublishLeavesOthersAlone ==
    [][\A a \in Aggregates : \A command \in Commands :
          Request(a, command)
          => LET c == aggregates[a].context IN
             /\ context' = context
             /\ \A b \in AggregatesIn(c) \ {a} :
                   /\ aggregates'[b] = aggregates[b]
                   /\ EventsOf(captured_events'[c], aggregates[b].id)
                         = EventsOf(captured_events[c], aggregates[b].id)
                   /\ SnapshotsFor(captured_snapshots'[c], aggregates[b].id)
                         = SnapshotsFor(captured_snapshots[c], aggregates[b].id)]_vars

\* two accounts of c1 with metadata set: the event and the snapshot of a1 are
\* still in the buffers after a2 published its own
C34_Witness ==
    /\ AggregatesIn("c1") = Aggregates
    /\ context["c1"]["user"] # NoValue
    /\ snapshot_frequency = 1
    /\ Len(captured_events["c1"]) = 2
    /\ captured_events["c1"][1].aggregate_id = aggregates["a1"].id
    /\ captured_events["c1"][2].aggregate_id = aggregates["a2"].id
    /\ Len(SnapshotsFor(captured_snapshots["c1"], aggregates["a1"].id)) = 1
    /\ Len(SnapshotsFor(captured_snapshots["c1"], aggregates["a2"].id)) = 1
    /\ aggregates["a1"].version = 1 /\ aggregates["a2"].version = 1

\* C35: SqlxStorageEngine::write_updates is all-or-nothing. When the insert
\* of an event or of a snapshot of the batch fails, none of the events and
\* snapshots of the batch is in the database.
C35_SqlxWriteAllOrNothing ==
    [][\A e \in Engines, events \in SqlEvents, snapshots \in SqlSnapshots :
          (SqlxWriteUpdates(e, events, snapshots) /\ ~result'.ok)
          => /\ database'.events = database.events
             /\ database'.snapshots = database.snapshots]_vars

\* every id that a get_aggregate_type_id call returned for the type
ReturnedFor(aggregate_type) ==
    UNION {engines[e].returned[aggregate_type] : e \in Engines}

\* C36: get_aggregate_type_id is idempotent and consistent with the cache.
\* All calls with one type name return one id, from the cache or from the
\* database, on either engine instance, before and after an instance is
\* re-created, and also when two instances ask for a new name at once;
\* different names have different ids.
C36_TypeIdStable ==
    /\ \A t \in EngineTypes : Cardinality(ReturnedFor(t)) <= 1
    /\ \A t, u \in EngineTypes :
          t # u => ReturnedFor(t) \cap ReturnedFor(u) = {}

\* both instances returned id 1 for account, one of them from an empty cache
\* after it was re-created, and both now hold the row of the new name user,
\* which each asked the database for
C36_Witness ==
    /\ engines["e1"].returned["account"] = {1}
    /\ engines["e2"].returned["account"] = {1}
    /\ engines["e1"].aggregate_types["account"] = 0
    /\ engines["e1"].pc = "insert" /\ engines["e1"].name = "user"
    /\ engines["e2"].pc = "insert" /\ engines["e2"].name = "user"
    /\ engines["e1"].id = 2 /\ engines["e2"].id = 2

\* C37: the rusqlite engine's get_events(id, type, v) returns only events of
\* a version strictly greater than v, in ascending order of version, so that
\* a load from a snapshot of version v does not apply event v again.
C37_SqliteGetEventsAboveVersion ==
    observed.op = "get_events"
    => /\ \A i \in 1..Len(observed.value) :
             observed.value[i].version > observed.version
       /\ \A i \in 1..(Len(observed.value) - 1) :
             observed.value[i].version <= observed.value[i + 1].version

====
